---- MODULE Spec2Model ----
(***************************************************************************)
(* Model of the transfer engine of beneuro_data: the pre-flight check and  *)
(* the copy loop of data_transfer_helpers.py, and upload_raw_session of    *)
(* data_transfer.py on top of them.                                        *)
(*                                                                         *)
(* One filesystem holds both storage roots (as in the tests, where both    *)
(* live under one tmp_path).  A path is a sequence of names; a file has a  *)
(* content (data) and a modification time, a directory is just a path.     *)
(***************************************************************************)
EXTENDS Integers, Sequences, FiniteSets, TLC

VARIABLES
    fs,        \* the filesystem: [dirs : set of paths, files : path -> file]
    pc,        \* per call of the helpers: where the call is
    pairs,     \* per call: the zipped (source, destination) list
    policy,    \* per call: if_exists
    idx,       \* per call: index of the pair the loop is at
    err,       \* per call: the exception that ended it (NoErr if none)
    fs0,       \* history: the filesystem when the running helper was entered
    wrote,     \* history: destination files written by the copy loop of the call
    made,      \* history: directories created by the copy loop of the call
    sawAbsent, \* history: destinations the pre-flight check found not to exist
    up,        \* the call of upload_raw_session: its position, arguments and history
    call       \* the call of any other operation: its name, arguments, position, result

hvars == <<pc, pairs, policy, idx, err, fs0, wrote, made, sawAbsent>>

vars == <<fs, hvars, up, call>>

-----------------------------------------------------------------------------
(* Bounds of the model *)

\* longest list of pairs handed to the helpers
MaxLen == 2

Procs == {"A", "B"}

-----------------------------------------------------------------------------
(* Paths (pathlib) *)

Parent(p) == SubSeq(p, 1, Len(p) - 1)

\* every proper, non-empty prefix of p: what mkdir(parents=True) may have to create
Ancestors(p) == {SubSeq(p, 1, n) : n \in 1 .. (Len(p) - 1)}

IsUnder(p, root) == Len(p) >= Len(root) /\ SubSeq(p, 1, Len(root)) = root

LocalRoot == <<"local">>
RemoteRoot == <<"remote">>

\* p.relative_to(source_root), appended to dest_root
SourceToDest(p, sourceRoot, destRoot) ==
    destRoot \o SubSeq(p, Len(sourceRoot) + 1, Len(p))

-----------------------------------------------------------------------------
(* Filesystem primitives *)

Exists(f, p) == p \in DOMAIN f.files \/ p \in f.dirs

\* dest_path.parent.mkdir(parents=True, exist_ok=True)
MkdirParents(f, d) == [f EXCEPT !.dirs = @ \cup {d} \cup Ancestors(d)]

\* what that mkdir raises, by the type of the error: exist_ok lets an existing
\* directory pass, a file in the place of d is FileExistsError, a file in the
\* place of a folder above d is NotADirectoryError
MkdirErrorType(f, d) ==
    IF d \in DOMAIN f.files THEN "FileExistsError"
    ELSE IF \E a \in Ancestors(d) : a \in DOMAIN f.files THEN "NotADirectoryError"
    ELSE "none"

\* a copy that leaves an empty file where copy2 would have written the source
Copy2WritesNothing(f, s, d) ==
    [f EXCEPT !.files = [q \in DOMAIN f.files \cup {d} |->
                            IF q = d THEN [data |-> "", mtime |-> f.files[s].mtime]
                            ELSE f.files[q]]]

\* shutil.copy2: content and modification time of the source go to the destination
Copy2(f, s, d) ==
    [f EXCEPT !.files = [q \in DOMAIN f.files \cup {d} |->
                            IF q = d THEN f.files[s] ELSE f.files[q]]]

\* a copy2 that failed after opening the destination: a truncated file is left
Truncated == [data |-> "trunc", mtime |-> "now"]

Copy2Partial(f, d) ==
    [f EXCEPT !.files = [q \in DOMAIN f.files \cup {d} |->
                            IF q = d THEN Truncated ELSE f.files[q]]]

\* filecmp.cmp(a, b, shallow=True): equal signatures count as equal files
FileCmpShallow(f, s, d) ==
    \/ f.files[s].mtime = f.files[d].mtime
    \/ f.files[s].data = f.files[d].data

\* filecmp.cmp(a, b, shallow=False): byte-for-byte
FileCmp(f, s, d) == f.files[s].data = f.files[d].data

-----------------------------------------------------------------------------
(* Exceptions *)

NoErr == [type |-> "none", msg |-> "", path |-> <<>>]

Raise(t, m, p) == [type |-> t, msg |-> m, path |-> p]

Policies == {"overwrite", "skip", "error_if_different", "error"}

\* what copy2 can do when it is called: succeed, or fail with an OSError
\* before or after the destination was opened for writing
IoOutcomes == {"ok", "fail_clean", "fail_partial"}

-----------------------------------------------------------------------------
(* _check_list_of_files_before_copy: one iteration of its loop *)

\* the variant that prepares the destination directory as the copy loop does
CheckPairMkdir(f, s, d, ifExists) ==
    [fs |-> MkdirParents(f, Parent(d)), err |-> NoErr]

\* the variant that reserves an absent destination by creating it empty
CheckPairReserves(f, s, d, ifExists) ==
    IF ~Exists(f, d) THEN [fs |-> Copy2Partial(f, d), err |-> NoErr]
    ELSE IF ifExists \in {"overwrite", "skip"} THEN [fs |-> f, err |-> NoErr]
    ELSE IF ifExists = "error_if_different" THEN
        IF FileCmp(f, s, d) THEN [fs |-> f, err |-> NoErr]
        ELSE [fs |-> f,
              err |-> Raise("FileExistsError", "File already exists and is different", d)]
    ELSE IF ifExists = "error" THEN
        [fs |-> f, err |-> Raise("FileExistsError", "File already exists", d)]
    ELSE [fs |-> f, err |-> Raise("ValueError", "Invalid value for if_exists", <<>>)]

\* the variant that compares signatures (shallow) instead of contents
CheckPairShallow(f, s, d, ifExists) ==
    IF ~Exists(f, d) THEN [fs |-> f, err |-> NoErr]
    ELSE IF ifExists \in {"overwrite", "skip"} THEN [fs |-> f, err |-> NoErr]
    ELSE IF ifExists = "error_if_different" THEN
        IF FileCmpShallow(f, s, d) THEN [fs |-> f, err |-> NoErr]
        ELSE [fs |-> f,
              err |-> Raise("FileExistsError", "File already exists and is different", d)]
    ELSE IF ifExists = "error" THEN
        [fs |-> f, err |-> Raise("FileExistsError", "File already exists", d)]
    ELSE [fs |-> f, err |-> Raise("ValueError", "Invalid value for if_exists", <<>>)]

\* the variant that names the source file in the error
CheckPairNamesSource(f, s, d, ifExists) ==
    IF ~Exists(f, d) THEN [fs |-> f, err |-> NoErr]
    ELSE IF ifExists \in {"overwrite", "skip"} THEN [fs |-> f, err |-> NoErr]
    ELSE IF ifExists = "error_if_different" THEN
        IF FileCmp(f, s, d) THEN [fs |-> f, err |-> NoErr]
        ELSE [fs |-> f,
              err |-> Raise("FileExistsError", "File already exists and is different", s)]
    ELSE IF ifExists = "error" THEN
        [fs |-> f, err |-> Raise("FileExistsError", "File already exists", s)]
    ELSE [fs |-> f, err |-> Raise("ValueError", "Invalid value for if_exists", <<>>)]

CheckPair(f, s, d, ifExists) ==
    IF ~Exists(f, d) THEN [fs |-> f, err |-> NoErr]
    ELSE IF ifExists = "overwrite" THEN [fs |-> f, err |-> NoErr]
    ELSE IF ifExists = "skip" THEN [fs |-> f, err |-> NoErr]
    ELSE IF ifExists = "error_if_different" THEN
        IF FileCmp(f, s, d) THEN [fs |-> f, err |-> NoErr]
        ELSE [fs |-> f,
              err |-> Raise("FileExistsError", "File already exists and is different", d)]
    ELSE IF ifExists = "error" THEN
        [fs |-> f, err |-> Raise("FileExistsError", "File already exists", d)]
    ELSE [fs |-> f, err |-> Raise("ValueError", "Invalid value for if_exists", <<>>)]

-----------------------------------------------------------------------------
(* _copy_list_of_files: one iteration of its loop *)

\* shutil.copy2 with the outcome io
DoCopy2(f, s, d, io) ==
    IF io = "ok" THEN [fs |-> Copy2(f, s, d), err |-> NoErr, wrote |-> {d}]
    ELSE IF io = "fail_partial" THEN
        [fs |-> Copy2Partial(f, d), err |-> Raise("OSError", "copy2 failed", d),
         wrote |-> {d}]
    ELSE [fs |-> f, err |-> Raise("OSError", "copy2 failed", d), wrote |-> {}]

\* the variant that copies again a destination that equals its source
CopyDecideCopiesEqual(f, s, d, ifExists) ==
    LET g == MkdirParents(f, Parent(d)) IN
    IF MkdirErrorType(f, Parent(d)) # "none"
    THEN [fs |-> f, act |-> "raise",
          err |-> Raise(MkdirErrorType(f, Parent(d)), "mkdir", Parent(d))]
    ELSE IF ~Exists(g, d) THEN [fs |-> g, act |-> "copy", err |-> NoErr]
    ELSE IF ifExists = "overwrite" THEN [fs |-> g, act |-> "copy", err |-> NoErr]
    ELSE IF ifExists = "skip" THEN [fs |-> g, act |-> "next", err |-> NoErr]
    ELSE IF ifExists = "error_if_different" THEN
        IF FileCmp(g, s, d) THEN [fs |-> g, act |-> "copy", err |-> NoErr]
        ELSE [fs |-> g, act |-> "raise",
              err |-> Raise("FileExistsError", "File already exists and is different", d)]
    ELSE IF ifExists = "error" THEN
        [fs |-> g, act |-> "raise",
         err |-> Raise("FileExistsError", "File already exists", d)]
    ELSE [fs |-> g, act |-> "raise",
          err |-> Raise("ValueError", "Invalid value for if_exists", <<>>)]

\* the variant that relies on the pre-flight check: whatever exists is copied over
CopyDecideTrustsPreflight(f, s, d, ifExists) ==
    IF MkdirErrorType(f, Parent(d)) # "none"
    THEN [fs |-> f, act |-> "raise",
          err |-> Raise(MkdirErrorType(f, Parent(d)), "mkdir", Parent(d))]
    ELSE [fs |-> MkdirParents(f, Parent(d)), act |-> "copy", err |-> NoErr]

\* what one iteration decides after mkdir and dest_path.exists(): "copy" (copy2
\* is to be called), "next" (continue) or "raise"
CopyDecide(f, s, d, ifExists) ==
    LET g == MkdirParents(f, Parent(d)) IN
    IF MkdirErrorType(f, Parent(d)) # "none"
    THEN [fs |-> f, act |-> "raise",
          err |-> Raise(MkdirErrorType(f, Parent(d)), "mkdir", Parent(d))]
    ELSE IF ~Exists(g, d) THEN [fs |-> g, act |-> "copy", err |-> NoErr]
    ELSE IF ifExists = "overwrite" THEN [fs |-> g, act |-> "copy", err |-> NoErr]
    ELSE IF ifExists = "skip" THEN [fs |-> g, act |-> "next", err |-> NoErr]
    ELSE IF ifExists = "error_if_different" THEN
        IF FileCmp(g, s, d) THEN [fs |-> g, act |-> "next", err |-> NoErr]
        ELSE [fs |-> g, act |-> "raise",
              err |-> Raise("FileExistsError", "File already exists and is different", d)]
    ELSE IF ifExists = "error" THEN
        [fs |-> g, act |-> "raise",
         err |-> Raise("FileExistsError", "File already exists", d)]
    ELSE [fs |-> g, act |-> "raise",
          err |-> Raise("ValueError", "Invalid value for if_exists", <<>>)]

\* one whole iteration, when nothing else touches the filesystem meanwhile
CopyPair(f, s, d, ifExists, io) ==
    LET dec == CopyDecide(f, s, d, ifExists) IN
    IF dec.act = "copy" THEN DoCopy2(dec.fs, s, d, io)
    ELSE [fs |-> dec.fs, err |-> dec.err, wrote |-> {}]

-----------------------------------------------------------------------------
(* The helpers as processes: a caller runs the pre-flight check over its   *)
(* list and then the copy loop, or calls the copy loop directly.           *)

SrcOf(p) == pairs[p][idx[p]][1]
DstOf(p) == pairs[p][idx[p]][2]

\* one iteration of the loop of _check_list_of_files_before_copy
CheckStep(p) ==
    /\ pc[p] = "check"
    /\ idx[p] <= Len(pairs[p])
    /\ LET r == CheckPair(fs, SrcOf(p), DstOf(p), policy[p]) IN
        /\ fs' = r.fs
        /\ IF r.err = NoErr
           THEN /\ idx' = [idx EXCEPT ![p] = @ + 1]
                /\ UNCHANGED <<pc, err>>
           ELSE /\ pc' = [pc EXCEPT ![p] = "check_raised"]
                /\ err' = [err EXCEPT ![p] = r.err]
                /\ UNCHANGED idx
        /\ sawAbsent' = [sawAbsent EXCEPT ![p] =
                            IF Exists(fs, DstOf(p)) THEN @ ELSE @ \cup {DstOf(p)}]
    /\ UNCHANGED <<pairs, policy, fs0, wrote, made, up, call>>

\* the loop of the check is exhausted: the check returns
CheckReturn(p) ==
    /\ pc[p] = "check"
    /\ idx[p] > Len(pairs[p])
    /\ pc' = [pc EXCEPT ![p] = "checked"]
    /\ UNCHANGED <<fs, pairs, policy, idx, err, fs0, wrote, made, sawAbsent, up, call>>

\* the caller goes on to _copy_list_of_files with the same arguments
StartCopy(p) ==
    /\ pc[p] = "checked"
    /\ pc' = [pc EXCEPT ![p] = "copy"]
    /\ idx' = [idx EXCEPT ![p] = 1]
    /\ fs0' = [fs0 EXCEPT ![p] = fs]
    /\ UNCHANGED <<fs, pairs, policy, err, wrote, made, sawAbsent, up, call>>

\* one iteration of the loop of _copy_list_of_files, up to the call of copy2:
\* the parent directory is made and the policy is applied to what exists now
CopyLook(p) ==
    /\ pc[p] = "copy"
    /\ idx[p] <= Len(pairs[p])
    /\ LET dec == CopyDecide(fs, SrcOf(p), DstOf(p), policy[p]) IN
        /\ fs' = dec.fs
        /\ made' = [made EXCEPT ![p] = @ \cup (dec.fs.dirs \ fs.dirs)]
        /\ CASE dec.act = "copy" ->
                  /\ pc' = [pc EXCEPT ![p] = "copy2"]
                  /\ UNCHANGED <<idx, err>>
             [] dec.act = "next" ->
                  /\ idx' = [idx EXCEPT ![p] = @ + 1]
                  /\ UNCHANGED <<pc, err>>
             [] dec.act = "raise" ->
                  /\ pc' = [pc EXCEPT ![p] = "copy_raised"]
                  /\ err' = [err EXCEPT ![p] = dec.err]
                  /\ UNCHANGED idx
    /\ UNCHANGED <<pairs, policy, fs0, wrote, sawAbsent, up, call>>

\* the variant that goes on with the next pair when copy2 fails
CopyWriteContinues(p) ==
    /\ pc[p] = "copy2"
    /\ \E io \in IoOutcomes :
        LET r == DoCopy2(fs, SrcOf(p), DstOf(p), io) IN
        /\ fs' = r.fs
        /\ wrote' = [wrote EXCEPT ![p] = @ \cup r.wrote]
        /\ idx' = [idx EXCEPT ![p] = @ + 1]
        /\ pc' = [pc EXCEPT ![p] = "copy"]
    /\ UNCHANGED <<pairs, policy, err, fs0, made, sawAbsent, up, call>>

\* shutil.copy2 of the pair the loop is at
CopyWrite(p) ==
    /\ pc[p] = "copy2"
    /\ \E io \in IoOutcomes :
        LET r == DoCopy2(fs, SrcOf(p), DstOf(p), io) IN
        /\ fs' = r.fs
        /\ wrote' = [wrote EXCEPT ![p] = @ \cup r.wrote]
        /\ IF r.err = NoErr
           THEN /\ idx' = [idx EXCEPT ![p] = @ + 1]
                /\ pc' = [pc EXCEPT ![p] = "copy"]
                /\ UNCHANGED err
           ELSE /\ pc' = [pc EXCEPT ![p] = "copy_raised"]
                /\ err' = [err EXCEPT ![p] = r.err]
                /\ UNCHANGED idx
    /\ UNCHANGED <<pairs, policy, fs0, made, sawAbsent, up, call>>

\* the loop of the copy is exhausted: the copy returns
CopyReturn(p) ==
    /\ pc[p] = "copy"
    /\ idx[p] > Len(pairs[p])
    /\ pc' = [pc EXCEPT ![p] = "copied"]
    /\ UNCHANGED <<fs, pairs, policy, idx, err, fs0, wrote, made, sawAbsent, up, call>>

HelperNext ==
    \E p \in Procs :
        \/ CheckStep(p)
        \/ CheckReturn(p)
        \/ StartCopy(p)
        \/ CopyLook(p)
        \/ CopyWrite(p)
        \/ CopyReturn(p)

-----------------------------------------------------------------------------
(* Inputs of the helper specifications *)

SessionRel == <<"raw", "M", "S">>

\* two files of a session, one in its root and one in a probe folder
RelTxt == SessionRel \o <<"S.txt">>
RelApBin == SessionRel \o <<"S_g0", "S_g0_imec0", "S_g0_t0.imec0.ap.bin">>

HelperSrcFiles == {LocalRoot \o RelTxt, LocalRoot \o RelApBin}
HelperDstFiles == {RemoteRoot \o RelTxt, RemoteRoot \o RelApBin}

\* the roots and their raw directories exist
BaseDirs == {LocalRoot, RemoteRoot, LocalRoot \o <<"raw">>, RemoteRoot \o <<"raw">>}

SrcVal == [data |-> "x", mtime |-> "t1"]
DstVals == [data : {"x", "y"}, mtime : {"t1", "t2"}]

\* a filesystem from a set of present files: their directories exist
MkFs(files) ==
    [dirs |-> BaseDirs \cup UNION {Ancestors(q) : q \in DOMAIN files},
     files |-> files]

Restrict(fn, S) == [q \in S |-> fn[q]]

HelperFilesystems ==
    { MkFs([q \in HelperSrcFiles \cup D |->
                IF q \in HelperSrcFiles THEN SrcVal ELSE dv[q]]) :
        <<D, dv>> \in {<<D, dv>> \in (SUBSET HelperDstFiles) \X [HelperDstFiles -> DstVals] :
                          \A q \in HelperDstFiles \ D : dv[q] = SrcVal} }

PairLists == UNION {[1 .. n -> HelperSrcFiles \X HelperDstFiles] : n \in 0 .. MaxLen}

\* no upload_raw_session is running
NoUpload == [pc |-> "idle"]

\* no other operation is running either
NoCall == [op |-> "none"]

\* one caller, any list, any policy (also an invalid one), starting at the
\* check or directly at the copy
InitHelper ==
    /\ fs \in HelperFilesystems
    /\ \E start \in {"check", "copy"} : pc = [p \in Procs |-> IF p = "A" THEN start ELSE "idle"]
    /\ \E l \in PairLists : pairs = [p \in Procs |-> IF p = "A" THEN l ELSE <<>>]
    /\ \E pol \in Policies \cup {"bogus"} : policy = [p \in Procs |-> pol]
    /\ idx = [p \in Procs |-> 1]
    /\ err = [p \in Procs |-> NoErr]
    /\ fs0 = [p \in Procs |-> fs]
    /\ wrote = [p \in Procs |-> {}]
    /\ made = [p \in Procs |-> {}]
    /\ sawAbsent = [p \in Procs |-> {}]
    /\ call = NoCall
    /\ up = NoUpload

SpecHelper == InitHelper /\ [][HelperNext]_vars

-----------------------------------------------------------------------------
(* Two concurrent syncs of the same session to the same destination root:  *)
(* each runs the pre-flight check over its plan and then the copy loop.    *)

\* plans as the callers build them: every destination is the mapped source
PlanLists ==
    UNION {[1 .. n -> {<<s, SourceToDest(s, LocalRoot, RemoteRoot)>> : s \in HelperSrcFiles}] :
              n \in 1 .. MaxLen}

RaceFilesystems ==
    { MkFs([q \in HelperSrcFiles \cup D |->
                IF q \in HelperSrcFiles THEN SrcVal ELSE [data |-> "y", mtime |-> "t2"]]) :
        D \in SUBSET HelperDstFiles }

InitRace ==
    /\ fs \in RaceFilesystems
    /\ pc = [p \in Procs |-> "check"]
    /\ pairs \in [Procs -> PlanLists]
    /\ \E pol \in {"error", "error_if_different"} : policy = [p \in Procs |-> pol]
    /\ idx = [p \in Procs |-> 1]
    /\ err = [p \in Procs |-> NoErr]
    /\ fs0 = [p \in Procs |-> fs]
    /\ wrote = [p \in Procs |-> {}]
    /\ made = [p \in Procs |-> {}]
    /\ sawAbsent = [p \in Procs |-> {}]
    /\ call = NoCall
    /\ up = NoUpload

SpecRace == InitRace /\ [][HelperNext]_vars

-----------------------------------------------------------------------------
(* The session tree.  "S" stands for the canonical session name            *)
(* {subject}_{YYYY}_{MM}_{DD}_{HH}_{mm} and "M" for the subject.            *)

LocalSession == LocalRoot \o SessionRel
RemoteSession == RemoteRoot \o SessionRel

Name(q) == q[Len(q)]

\* behavioural files: the log and the two sensor files, and a third sensor file
TxtRel == <<"S.txt">>
PcaXRel == <<"S_MotSen1-X.pca">>
PcaYRel == <<"S_MotSen1-Y.pca">>
Pca2Rel == <<"S_MotSen2-X.pca">>

\* one recording with one probe and its four files
RecordingRel == <<"S_g0">>
ProbeRel == <<"S_g0", "S_g0_imec0">>
ProbeFileNames ==
    {"S_g0_t0.imec0.lf.meta", "S_g0_t0.imec0.lf.bin",
     "S_g0_t0.imec0.ap.meta", "S_g0_t0.imec0.ap.bin"}
LfMetaRel == ProbeRel \o <<"S_g0_t0.imec0.lf.meta">>
LfBinRel == ProbeRel \o <<"S_g0_t0.imec0.lf.bin">>
ApMetaRel == ProbeRel \o <<"S_g0_t0.imec0.ap.meta">>
ApBinRel == ProbeRel \o <<"S_g0_t0.imec0.ap.bin">>

\* the video folder with two cameras and the sidecar
CamerasRel == <<"S_cameras">>
Cam0Rel == <<"S_cameras", "S_camera_0.avi">>
Cam1Rel == <<"S_cameras", "S_camera_1.avi">>
MetadataRel == <<"S_cameras", "metadata.csv">>

\* a video as the camera software saves it, and the sidecar, in the session root
RootCamRel == <<"Camera_0.avi">>
RootMetadataRel == <<"metadata.csv">>
CamRawRel == <<"S_cameras", "Camera_0.avi">>
CamRaw1Rel == <<"S_cameras", "Camera_1.avi">>

\* the video folder under another name
OtherCamRawRel == <<"cams", "Camera_0.avi">>
OtherCam0Rel == <<"cams", "S_camera_0.avi">>
OtherMetadataRel == <<"cams", "metadata.csv">>

\* a whitelisted file of the session root, bare and prefixed
CommentRel == <<"comment.txt">>
SCommentRel == <<"S_comment.txt">>

\* a file in the session root that belongs to no kind and is not an extra file
JsonRel == <<"S.json">>

\* a file with an allowed extension outside the session root, bare and prefixed
NotesRel == <<"S_g0", "notes.txt">>
SNotesRel == <<"S_g0", "S_notes.txt">>

\* the order in which listings return the files of a session
SessionOrder ==
    <<TxtRel, PcaXRel, PcaYRel, Pca2Rel, LfMetaRel, LfBinRel, ApMetaRel, ApBinRel,
      Cam0Rel, Cam1Rel, CamRawRel, MetadataRel, RootCamRel, RootMetadataRel,
      CommentRel, SCommentRel, CamRaw1Rel, OtherCamRawRel, OtherCam0Rel,
      OtherMetadataRel, NotesRel, SNotesRel, JsonRel>>

ListOf(sess, S) ==
    LET all == [i \in 1 .. Len(SessionOrder) |-> sess \o SessionOrder[i]]
        In(q) == q \in S
    IN  SelectSeq(all, In)

Range(l) == {l[i] : i \in 1 .. Len(l)}

ExtOf(n) ==
    CASE n \in {"S.txt", "comment.txt", "S_comment.txt", "notes.txt", "S_notes.txt"} -> ".txt"
      [] n \in {"S_MotSen1-X.pca", "S_MotSen1-Y.pca", "S_MotSen2-X.pca"} -> ".pca"
      [] n \in {"S_camera_0.avi", "S_camera_1.avi", "Camera_0.avi", "Camera_1.avi"} -> ".avi"
      [] n = "S.json" -> ".json"
      [] n = "metadata.csv" -> ".csv"
      [] n \in {"S_g0_t0.imec0.lf.meta", "S_g0_t0.imec0.ap.meta"} -> ".meta"
      [] n \in {"S_g0_t0.imec0.lf.bin", "S_g0_t0.imec0.ap.bin"} -> ".bin"
      [] OTHER -> ""

\* file_path.name.startswith(session_path.name)
StartsWithSessionName(n) ==
    n \notin {"comment.txt", "metadata.csv", "Camera_0.avi", "Camera_1.avi", "notes.txt"}

\* session_path.name + "_" + name
Prefixed(n) ==
    CASE n = "comment.txt" -> "S_comment.txt"
      [] n = "metadata.csv" -> "S_metadata.csv"
      [] n = "notes.txt" -> "S_notes.txt"

\* config.WHITELISTED_FILES_IN_ROOT, cut to its first entry
Whitelist == <<"comment.txt">>

\* config.EXTENSIONS_TO_RENAME_AND_UPLOAD
AllowedExtensions == <<".txt">>

FilesIn(f, dir) == {q \in DOMAIN f.files : Parent(q) = dir}
DirsIn(f, dir) == {q \in f.dirs : Len(q) > 0 /\ Parent(q) = dir}
FilesUnder(f, dir) == {q \in DOMAIN f.files : IsUnder(q, dir)}

-----------------------------------------------------------------------------
(* Structure Validator: validate_raw_*_of_session of data_validation.      *)
(* Each returns the manifest (files) or the error it raises (err).         *)

ExpectedPca == 2
ExpectedTxt == 1

IsWhitelisted(n) ==
    \E i \in 1 .. Len(Whitelist) : n = Whitelist[i] \/ n = Prefixed(Whitelist[i])

\* the pattern anchored on the session name, per extension
MatchesPyControl(n) ==
    n \in {"S.txt", "S_comment.txt", "S_MotSen1-X.pca", "S_MotSen1-Y.pca", "S_MotSen2-X.pca"}

ValidateBehavior(f, sess) ==
    LET counted(ext) == {q \in FilesIn(f, sess) :
                            ExtOf(Name(q)) = ext /\ ~IsWhitelisted(Name(q))}
        all == counted(".pca") \cup counted(".txt")
    IN  IF \E q \in all : ~MatchesPyControl(Name(q))
        THEN [err |-> Raise("ValueError", "does not match expected pattern", sess),
              files |-> <<>>]
        ELSE IF Cardinality(counted(".pca")) # ExpectedPca
        THEN [err |-> Raise("WrongNumberOfFilesError",
                            "Expected 2 files with extension .pca", sess),
              files |-> <<>>]
        ELSE IF Cardinality(counted(".txt")) # ExpectedTxt
        THEN [err |-> Raise("WrongNumberOfFilesError",
                            "Expected 1 files with extension .txt", sess),
              files |-> <<>>]
        ELSE [err |-> NoErr, files |-> ListOf(sess, all)]

IsRecordingName(n) == n = "S_g0"
IsProbeName(n) == n = "S_g0_imec0"

ValidateEphys(f, sess) ==
    LET recs == {d \in DirsIn(f, sess) : IsRecordingName(Name(d))}
        probes == UNION {DirsIn(f, r) : r \in recs}
        raw == {q \in FilesUnder(f, sess) : ExtOf(Name(q)) \in {".meta", ".bin"}}
    IN  IF recs = {} /\ raw = {} THEN [err |-> NoErr, files |-> <<>>]
        ELSE IF \E r \in recs :
                    \/ FilesIn(f, r) # {}
                    \/ \E d \in DirsIn(f, r) : ~IsProbeName(Name(d))
        THEN [err |-> Raise("ValueError", "not a probe folder", sess), files |-> <<>>]
        ELSE IF \E d \in probes :
                    \/ {Name(q) : q \in FilesIn(f, d)} # ProbeFileNames
                    \/ DirsIn(f, d) # {}
        THEN [err |-> Raise("ValueError", "probe folder content", sess), files |-> <<>>]
        ELSE IF \E q \in raw : \A r \in recs : ~IsUnder(q, r)
        THEN [err |-> Raise("ValueError", "file in unexpected location", sess),
              files |-> <<>>]
        ELSE [err |-> NoErr,
              files |-> ListOf(sess, UNION {FilesUnder(f, r) : r \in recs})]

IsVideoName(n) == n \in {"S_camera_0.avi", "S_camera_1.avi"}

ValidateVideos(f, sess) ==
    LET folder == sess \o CamerasRel
        vids == {q \in FilesIn(f, folder) : ExtOf(Name(q)) = ".avi"}
        rest == (FilesIn(f, folder) \ vids) \cup DirsIn(f, folder)
        stray == {q \in FilesUnder(f, sess) :
                     /\ ExtOf(Name(q)) = ".avi" \/ Name(q) = "metadata.csv"
                     /\ Parent(q) # folder}
    IN  IF stray # {}
        THEN [err |-> Raise("ValueError", "file in unexpected location", sess),
              files |-> <<>>]
        ELSE IF folder \notin f.dirs THEN [err |-> NoErr, files |-> <<>>]
        ELSE IF vids = {}
        THEN [err |-> Raise("FileNotFoundError", "No video files found", folder),
              files |-> <<>>]
        ELSE IF \E q \in vids : ~IsVideoName(Name(q))
        THEN [err |-> Raise("ValueError", "Video filename does not start with", folder),
              files |-> <<>>]
        ELSE IF folder \o <<"metadata.csv">> \notin rest
        THEN [err |-> Raise("FileNotFoundError",
                            "Could not find metadata.csv in video folder", folder),
              files |-> <<>>]
        ELSE IF rest # {folder \o <<"metadata.csv">>}
        THEN [err |-> Raise("ValueError", "unexpected files in video folder", folder),
              files |-> <<>>]
        ELSE [err |-> NoErr, files |-> ListOf(sess, vids \cup rest)]

\* validate_raw_session: the kinds asked for, behaviour, then ephys, then videos
ValidateRawSession(f, sess, beh, eph, vid) ==
    LET b == ValidateBehavior(f, sess)
        e == ValidateEphys(f, sess)
        v == ValidateVideos(f, sess)
    IN  IF beh /\ b.err # NoErr THEN b.err
        ELSE IF eph /\ e.err # NoErr THEN e.err
        ELSE IF vid /\ v.err # NoErr THEN v.err
        ELSE NoErr

-----------------------------------------------------------------------------
(* extra_file_handling.py *)

\* _find_whitelisted_files_in_root: per filename, the bare and the prefixed one
RECURSIVE FindWhitelistedFrom(_, _, _)
FindWhitelistedFrom(f, sess, i) ==
    IF i > Len(Whitelist) THEN <<>>
    ELSE LET bare == sess \o <<Whitelist[i]>>
             pre == sess \o <<Prefixed(Whitelist[i])>>
         IN  (IF Exists(f, bare) THEN <<bare>> ELSE <<>>)
             \o (IF Exists(f, pre) THEN <<pre>> ELSE <<>>)
             \o FindWhitelistedFrom(f, sess, i + 1)

FindWhitelistedFilesInRoot(f, sess) == FindWhitelistedFrom(f, sess, 1)

\* _find_extra_files_with_extension: glob("**/*ext") without the session root
FindExtraFilesWithExtension(f, sess, ext) ==
    ListOf(sess, {q \in FilesUnder(f, sess) : ExtOf(Name(q)) = ext /\ Parent(q) # sess})

RECURSIVE FindExtraFrom(_, _, _)
FindExtraFrom(f, sess, i) ==
    IF i > Len(AllowedExtensions) THEN <<>>
    ELSE FindExtraFilesWithExtension(f, sess, AllowedExtensions[i])
         \o FindExtraFrom(f, sess, i + 1)

FindExtraFilesWithExtensions(f, sess) == FindExtraFrom(f, sess, 1)

\* Path.rename
Rename(f, old, new) ==
    [f EXCEPT !.files = [q \in (DOMAIN f.files \ {old}) \cup {new} |->
                            IF q = new THEN f.files[old] ELSE f.files[q]]]

\* _rename_files_to_start_with_session_name, from position i of the list
RECURSIVE RenameFilesFrom(_, _, _)
RenameFilesFrom(f, files, i) ==
    IF i > Len(files) THEN [fs |-> f, err |-> NoErr]
    ELSE IF StartsWithSessionName(Name(files[i])) THEN RenameFilesFrom(f, files, i + 1)
    ELSE LET new == Parent(files[i]) \o <<Prefixed(Name(files[i]))>> IN
         IF Exists(f, new)
         THEN [fs |-> f, err |-> Raise("FileExistsError", "Aborting renaming", new)]
         ELSE RenameFilesFrom(Rename(f, files[i], new), files, i + 1)

\* the extensions of rename_extra_files_in_session, one after the other
RECURSIVE RenameExtensionsFrom(_, _, _)
RenameExtensionsFrom(f, sess, i) ==
    IF i > Len(AllowedExtensions) THEN [fs |-> f, err |-> NoErr]
    ELSE LET r == RenameFilesFrom(
                     f, FindExtraFilesWithExtension(f, sess, AllowedExtensions[i]), 1)
         IN  IF r.err # NoErr THEN r ELSE RenameExtensionsFrom(r.fs, sess, i + 1)

RenameExtraFilesInSession(f, sess) ==
    LET r == RenameFilesFrom(f, FindWhitelistedFilesInRoot(f, sess), 1) IN
    IF r.err # NoErr THEN r ELSE RenameExtensionsFrom(r.fs, sess, 1)

-----------------------------------------------------------------------------
(* video_renaming.py *)

\* expected_video_filename_start + str(camera_id) + the suffix, where camera_id
\* is what follows the last "_" of the stem
CameraName(n) ==
    CASE n \in {"Camera_0.avi", "S_camera_0.avi"} -> "S_camera_0.avi"
      [] n \in {"Camera_1.avi", "S_camera_1.avi"} -> "S_camera_1.avi"

\* lines 103-116: the videos of the expected folder are renamed one by one
RECURSIVE RenameVideoFilesFrom(_, _, _)
RenameVideoFilesFrom(f, files, i) ==
    IF i > Len(files) THEN [fs |-> f, err |-> NoErr]
    ELSE LET new == Parent(files[i]) \o <<CameraName(Name(files[i]))>> IN
         IF Exists(f, new)
         THEN [fs |-> f, err |-> Raise("FileExistsError", "Aborting renaming", new)]
         ELSE RenameVideoFilesFrom(Rename(f, files[i], new), files, i + 1)

\* lines 71-75: the videos found in the session root move into the folder
RECURSIVE MoveFilesFrom(_, _, _, _)
MoveFilesFrom(f, files, folder, i) ==
    IF i > Len(files) THEN f
    ELSE MoveFilesFrom(Rename(f, files[i], folder \o <<Name(files[i])>>), files, folder,
                       i + 1)

\* the variant whose rename leaves the folder where it was
RenameFolderNowhere(f, old, new) == f

\* found_video_folder.rename(expected_video_folder_path)
RenameFolder(f, old, new) ==
    LET to(q) == IF IsUnder(q, old) THEN new \o SubSeq(q, Len(old) + 1, Len(q)) ELSE q
        under == {q \in DOMAIN f.files : IsUnder(q, old)}
    IN  [dirs |-> {to(d) : d \in f.dirs},
         files |-> [q \in (DOMAIN f.files \ under) \cup {to(x) : x \in under} |->
                       IF q \in DOMAIN f.files \ under THEN f.files[q]
                       ELSE f.files[CHOOSE x \in under : to(x) = q]]]

\* the videos of the expected folder renamed whatever the validator says
RenameRawVideosAlways(f, sess) ==
    RenameVideoFilesFrom(
        f, ListOf(sess, {q \in FilesIn(f, sess \o CamerasRel) : ExtOf(Name(q)) = ".avi"}),
        1)

\* the folder is put in place and the names are left to a later call
RECURSIVE RenameRawVideosFolderOnly(_, _)
RenameRawVideosFolderOnly(f, sess) ==
    LET folder == sess \o CamerasRel
        v == ValidateVideos(f, sess)
        avis == {q \in FilesUnder(f, sess) : ExtOf(Name(q)) = ".avi"}
        found == {Parent(q) : q \in avis}
        meta == sess \o RootMetadataRel
    IN  IF v.err = NoErr THEN [fs |-> f, err |-> NoErr]
        ELSE IF v.err.type # "ValueError" THEN [fs |-> f, err |-> v.err]
        ELSE IF v.err.msg = "file in unexpected location"
        THEN IF Cardinality(found) # 1
             THEN [fs |-> f, err |-> Raise("AssertionError", "", sess)]
             ELSE IF Exists(f, folder)
             THEN [fs |-> f, err |-> Raise("FileExistsError", "Aborting renaming", folder)]
             ELSE IF found = {sess}
             THEN LET g == MoveFilesFrom([f EXCEPT !.dirs = @ \cup {folder}],
                                         ListOf(sess, avis), folder, 1)
                  IN  IF ~Exists(g, meta)
                      THEN [fs |-> g, err |-> Raise("AssertionError", "", meta)]
                      ELSE [fs |-> Rename(g, meta, folder \o <<Name(meta)>>),
                            err |-> NoErr]
             ELSE [fs |-> RenameFolder(f, CHOOSE d \in found : TRUE, folder),
                   err |-> NoErr]
        ELSE IF v.err.msg = "Video filename does not start with"
        THEN RenameVideoFilesFrom(
                 f, ListOf(sess, {q \in FilesIn(f, folder) : ExtOf(Name(q)) = ".avi"}), 1)
        ELSE [fs |-> f, err |-> NoErr]

\* rename_raw_videos_of_session: what the validator's error says decides what is
\* repaired; a session whose videos validate is left as it is
RECURSIVE RenameRawVideosOfSession(_, _)
RenameRawVideosOfSession(f, sess) ==
    LET folder == sess \o CamerasRel
        v == ValidateVideos(f, sess)
        avis == {q \in FilesUnder(f, sess) : ExtOf(Name(q)) = ".avi"}
        found == {Parent(q) : q \in avis}
        meta == sess \o RootMetadataRel
    IN  IF v.err = NoErr THEN [fs |-> f, err |-> NoErr]
        ELSE IF v.err.type # "ValueError" THEN [fs |-> f, err |-> v.err]
        ELSE IF v.err.msg = "file in unexpected location"
        THEN IF Cardinality(found) # 1
             THEN [fs |-> f, err |-> Raise("AssertionError", "", sess)]
             ELSE IF Exists(f, folder)
             THEN [fs |-> f, err |-> Raise("FileExistsError", "Aborting renaming", folder)]
             ELSE IF found = {sess}
             THEN LET g == MoveFilesFrom([f EXCEPT !.dirs = @ \cup {folder}],
                                         ListOf(sess, avis), folder, 1)
                  IN  IF ~Exists(g, meta)
                      THEN [fs |-> g, err |-> Raise("AssertionError", "", meta)]
                      ELSE RenameRawVideosOfSession(
                               Rename(g, meta, folder \o <<Name(meta)>>), sess)
             ELSE RenameRawVideosOfSession(
                      RenameFolder(f, CHOOSE d \in found : TRUE, folder), sess)
        ELSE IF v.err.msg = "Video filename does not start with"
        THEN RenameVideoFilesFrom(
                 f, ListOf(sess, {q \in FilesIn(f, folder) : ExtOf(Name(q)) = ".avi"}), 1)
        ELSE [fs |-> f, err |-> NoErr]

-----------------------------------------------------------------------------
(* The helpers over a whole list, as one call sees them when nothing else  *)
(* touches the filesystem meanwhile.                                       *)

Zip(srcs, dsts) ==
    [i \in 1 .. (IF Len(srcs) < Len(dsts) THEN Len(srcs) ELSE Len(dsts)) |->
        <<srcs[i], dsts[i]>>]

\* _source_to_dest on a list
SourceToDestList(l, sourceRoot, destRoot) ==
    [i \in 1 .. Len(l) |-> SourceToDest(l[i], sourceRoot, destRoot)]

RECURSIVE CheckListFrom(_, _, _, _)
CheckListFrom(f, ps, ifExists, i) ==
    IF i > Len(ps) THEN [fs |-> f, err |-> NoErr]
    ELSE LET r == CheckPair(f, ps[i][1], ps[i][2], ifExists) IN
         IF r.err # NoErr THEN r ELSE CheckListFrom(r.fs, ps, ifExists, i + 1)

CheckListOfFilesBeforeCopy(f, ps, ifExists) == CheckListFrom(f, ps, ifExists, 1)

\* copy2 fails at the pair failAt (0: never) with the outcome io
RECURSIVE CopyListFrom(_, _, _, _, _, _, _)
CopyListFrom(f, ps, ifExists, i, failAt, io, w) ==
    IF i > Len(ps) THEN [fs |-> f, err |-> NoErr, wrote |-> w]
    ELSE LET r == CopyPair(f, ps[i][1], ps[i][2], ifExists,
                           IF i = failAt THEN io ELSE "ok")
         IN  IF r.err # NoErr THEN [fs |-> r.fs, err |-> r.err, wrote |-> w \cup r.wrote]
             ELSE CopyListFrom(r.fs, ps, ifExists, i + 1, failAt, io, w \cup r.wrote)

CopyListOfFiles(f, ps, ifExists, failAt, io) ==
    CopyListFrom(f, ps, ifExists, 1, failAt, io, {})

\* _validate_session_is_raw_and_in_root
ValidateSessionIsRawAndInRoot(sess, base) ==
    IF ~IsUnder(sess, base)
    THEN Raise("ValueError", "Session path is not a subdirectory of the local root", sess)
    ELSE IF \A i \in 1 .. Len(sess) : sess[i] # "raw"
    THEN Raise("ValueError", "the session's path does not contain 'raw'", sess)
    ELSE NoErr

-----------------------------------------------------------------------------
(* data_transfer.py: the _prepare_copying_raw_* functions *)

\* map the validated source files and pre-flight-check the pairs
PrepareCopying(f, v, sourceBase, destBase, ifExists) ==
    IF v.err # NoErr THEN [fs |-> f, err |-> v.err, at |-> "validate", plan |-> <<>>]
    ELSE LET plan == Zip(v.files, SourceToDestList(v.files, sourceBase, destBase))
             c == CheckListOfFilesBeforeCopy(f, plan, ifExists)
         IN  [fs |-> c.fs, err |-> c.err, at |-> "preflight", plan |-> plan]

PrepareCopyingRawBehavioralData(f, sess, sourceBase, destBase, ifExists) ==
    PrepareCopying(f, ValidateBehavior(f, sess), sourceBase, destBase, ifExists)

PrepareCopyingRawEphysData(f, sess, sourceBase, destBase, ifExists) ==
    PrepareCopying(f, ValidateEphys(f, sess), sourceBase, destBase, ifExists)

PrepareCopyingRawVideos(f, sess, sourceBase, destBase, ifExists) ==
    PrepareCopying(f, ValidateVideos(f, sess), sourceBase, destBase, ifExists)

PrepareCopyingRawExtraFiles(f, sess, sourceBase, destBase, ifExists) ==
    PrepareCopying(f,
                   [err |-> NoErr,
                    files |-> FindExtraFilesWithExtensions(f, sess)
                              \o FindWhitelistedFilesInRoot(f, sess)],
                   sourceBase, destBase, ifExists)

-----------------------------------------------------------------------------
(* upload_raw_session and the upload_* functions it calls, one action per  *)
(* phase of each.                                                          *)

Kinds == <<"behavior", "ephys", "videos", "extra">>

Included(flags, k) ==
    CASE k = "behavior" -> flags.beh
      [] k = "ephys" -> flags.eph
      [] k = "videos" -> flags.vid
      [] k = "extra" -> flags.extra

KindIndex(k) == CHOOSE i \in 1 .. Len(Kinds) : Kinds[i] = k

\* the if-statements of upload_raw_session after position i: the next kind uploaded
NextKind(flags, i) ==
    LET later == {j \in (i + 1) .. Len(Kinds) : Included(flags, Kinds[j])} IN
    IF later = {} THEN "none"
    ELSE Kinds[CHOOSE j \in later : \A k \in later : j <= k]

\* every upload_* function uses this policy
UploadPolicy == "error_if_different"

\* the call goes on to the upload of the next included kind, or returns True
Advance(u, i) ==
    LET k == NextKind(u.flags, i) IN
    IF k = "none" THEN [u EXCEPT !.pc = "done", !.kind = "none"]
    ELSE [u EXCEPT !.pc = IF k = "extra" THEN "xrename" ELSE "prep", !.kind = k]

Fail(u, e, at) == [u EXCEPT !.pc = "raised", !.err = e, !.errAt = at]

\* lines 77-94: the renaming asked for by the two rename flags
UpRenamePass ==
    /\ up.pc = "rename"
    /\ IF up.flags.renVid /\ ~up.flags.vid
       THEN /\ up' = Fail(up, Raise("ValueError", "Do not rename videos", <<>>), "flags")
            /\ UNCHANGED fs
       ELSE LET a == IF up.flags.renVid THEN RenameRawVideosOfSession(fs, LocalSession)
                     ELSE [fs |-> fs, err |-> NoErr]
            IN  IF a.err # NoErr
                THEN /\ up' = Fail(up, a.err, "rename")
                     /\ fs' = a.fs
                ELSE IF up.flags.renExtra /\ ~up.flags.extra
                THEN /\ up' = Fail(up, Raise("ValueError", "Do not rename extra files", <<>>),
                                   "flags")
                     /\ fs' = a.fs
                ELSE LET b == IF up.flags.renExtra
                              THEN RenameExtraFilesInSession(a.fs, LocalSession)
                              ELSE [fs |-> a.fs, err |-> NoErr]
                     IN  /\ fs' = b.fs
                         /\ up' = IF b.err # NoErr THEN Fail(up, b.err, "rename")
                                  ELSE [up EXCEPT !.pc = "validate"]
    /\ UNCHANGED <<hvars, call>>

\* lines 96-106: validate_raw_session on the source
UpValidate ==
    /\ up.pc = "validate"
    /\ LET e == ValidateRawSession(fs, LocalSession, up.flags.beh, up.flags.eph,
                                   up.flags.vid)
           u == [up EXCEPT !.validated = TRUE]
       IN  up' = IF e # NoErr THEN Fail(u, e, "validate") ELSE Advance(u, 0)
    /\ UNCHANGED <<fs, hvars, call>>

\* the variant in which no function looks at how many files it resolved
PrepareKindAllowsEmpty(f, k) ==
    CASE k = "behavior" ->
            PrepareCopyingRawBehavioralData(f, LocalSession, LocalRoot, RemoteRoot,
                                            UploadPolicy)
      [] k = "ephys" ->
            PrepareCopyingRawEphysData(f, LocalSession, LocalRoot, RemoteRoot, UploadPolicy)
      [] k = "videos" ->
            PrepareCopyingRawVideos(f, LocalSession, LocalRoot, RemoteRoot, UploadPolicy)
      [] k = "extra" ->
            PrepareCopyingRawExtraFiles(f, LocalSession, LocalRoot, RemoteRoot,
                                        UploadPolicy)

\* upload_raw_behavioral_data, upload_raw_ephys_data, upload_raw_videos and
\* upload_extra_files up to their call of _copy_list_of_files
PrepareKind(f, k) ==
    CASE k = "behavior" ->
            PrepareCopyingRawBehavioralData(f, LocalSession, LocalRoot, RemoteRoot,
                                            UploadPolicy)
      [] k = "ephys" ->
            LET r == PrepareCopyingRawEphysData(f, LocalSession, LocalRoot, RemoteRoot,
                                                UploadPolicy)
            IN  IF r.err = NoErr /\ Len(r.plan) = 0
                THEN [r EXCEPT !.err = Raise("FileNotFoundError", "no recordings found",
                                             LocalSession),
                               !.at = "resolve"]
                ELSE r
      [] k = "videos" ->
            LET v == ValidateVideos(f, LocalSession) IN
            IF v.err # NoErr THEN [fs |-> f, err |-> v.err, at |-> "validate", plan |-> <<>>]
            ELSE IF Len(v.files) = 0
            THEN [fs |-> f, at |-> "resolve", plan |-> <<>>,
                  err |-> Raise("FileNotFoundError", "no video folder found", LocalSession)]
            ELSE PrepareCopyingRawVideos(f, LocalSession, LocalRoot, RemoteRoot,
                                         UploadPolicy)
      [] k = "extra" ->
            PrepareCopyingRawExtraFiles(f, LocalSession, LocalRoot, RemoteRoot,
                                        UploadPolicy)

UpPrepare ==
    /\ up.pc = "prep"
    /\ LET e == IF up.kind = "extra" THEN NoErr
                ELSE ValidateSessionIsRawAndInRoot(LocalSession, LocalRoot)
           r == PrepareKind(fs, up.kind)
       IN  IF e # NoErr
           THEN /\ up' = Fail(up, e, "validate")
                /\ UNCHANGED fs
           ELSE /\ fs' = r.fs
                /\ up' = IF r.err # NoErr THEN Fail(up, r.err, r.at)
                         ELSE [up EXCEPT !.pc = "copy", !.plan = r.plan,
                                         !.planned[up.kind] =
                                             {r.plan[i][2] : i \in 1 .. Len(r.plan)}]
    /\ UNCHANGED <<hvars, call>>

\* the call of _copy_list_of_files of the kind; upload_extra_files returns after it
UpCopy ==
    /\ up.pc = "copy"
    /\ \E failAt \in 0 .. Len(up.plan) :
       \E io \in IF failAt = 0 THEN {"ok"} ELSE {"fail_clean", "fail_partial"} :
        LET r == CopyListOfFiles(fs, up.plan, UploadPolicy, failAt, io)
            u == [up EXCEPT !.written = @ \cup r.wrote]
        IN  /\ fs' = r.fs
            /\ up' = IF r.err # NoErr THEN Fail(u, r.err, "copy")
                     ELSE IF up.kind = "extra"
                     THEN Advance([u EXCEPT !.returned = @ \cup {"extra"}],
                                  KindIndex("extra"))
                     ELSE [u EXCEPT !.pc = "verify"]
    /\ UNCHANGED <<hvars, call>>

\* the variant that deletes what the plan copied when the verification fails
VerifyKindRollsBack(f, k, plan) ==
    LET dsts == {plan[i][2] : i \in 1 .. Len(plan)}
        v == CASE k = "behavior" -> ValidateBehavior(f, RemoteSession)
               [] k = "ephys" -> ValidateEphys(f, RemoteSession)
               [] k = "videos" -> ValidateVideos(f, RemoteSession)
        undone == [f EXCEPT !.files = [q \in DOMAIN f.files \ dsts |-> f.files[q]]]
    IN  IF v.err # NoErr THEN [fs |-> undone, err |-> v.err, found |-> <<>>]
        ELSE IF k = "behavior" /\ Range(v.files) # dsts
        THEN [fs |-> undone, found |-> v.files,
              err |-> Raise("RuntimeError",
                            "Something went wrong during uploading raw behavioral data",
                            LocalSession)]
        ELSE IF k = "videos" /\ Len(v.files) = 0
        THEN [fs |-> undone, found |-> v.files,
              err |-> Raise("FileNotFoundError", "Data not found on the server",
                            RemoteSession)]
        ELSE [fs |-> f, err |-> NoErr, found |-> v.files]

\* what follows _copy_list_of_files: the destination session is validated, and
\* what it holds is compared with the plan the way the kind's function does
VerifyKind(f, k, plan) ==
    LET dsts == [i \in 1 .. Len(plan) |-> plan[i][2]]
        v == CASE k = "behavior" -> ValidateBehavior(f, RemoteSession)
               [] k = "ephys" -> ValidateEphys(f, RemoteSession)
               [] k = "videos" -> ValidateVideos(f, RemoteSession)
    IN  IF v.err # NoErr THEN [fs |-> f, err |-> v.err, found |-> <<>>]
        ELSE IF k = "behavior" /\ Range(v.files) # Range(dsts)
        THEN [fs |-> f, found |-> v.files,
              err |-> Raise("RuntimeError",
                            "Something went wrong during uploading raw behavioral data",
                            LocalSession)]
        ELSE IF k = "videos" /\ Len(v.files) = 0
        THEN [fs |-> f, found |-> v.files,
              err |-> Raise("FileNotFoundError", "Data not found on the server",
                            RemoteSession)]
        ELSE [fs |-> f, err |-> NoErr, found |-> v.files]

UpVerify ==
    /\ up.pc = "verify"
    /\ LET r == VerifyKind(fs, up.kind, up.plan) IN
        /\ fs' = r.fs
        /\ up' = IF r.err # NoErr THEN Fail(up, r.err, "verify")
                 ELSE Advance([up EXCEPT !.returned = @ \cup {up.kind},
                                         !.found[up.kind] = Range(r.found)],
                              KindIndex(up.kind))
    /\ UNCHANGED <<hvars, call>>

\* upload_extra_files, lines 361-364: it renames the extra files itself
UpExtraRename ==
    /\ up.pc = "xrename"
    /\ LET r == RenameExtraFilesInSession(fs, LocalSession) IN
        /\ fs' = r.fs
        /\ up' = IF r.err # NoErr
                 THEN Fail([up EXCEPT !.lateRename = @ \/ (r.fs # fs)], r.err, "rename")
                 ELSE [up EXCEPT !.pc = "prep", !.lateRename = @ \/ (r.fs # fs)]
    /\ UNCHANGED <<hvars, call>>

\* a new call of upload_raw_session with the flags fl on the filesystem f
NewUpload(fl, f, run, changed, synced) ==
    [pc |-> "rename", kind |-> "none", flags |-> fl, plan |-> <<>>,
     err |-> NoErr, errAt |-> "", start |-> f, written |-> {},
     planned |-> [k \in Range(Kinds) |-> {}],
     found |-> [k \in Range(Kinds) |-> {}],
     returned |-> {}, validated |-> FALSE, lateRename |-> FALSE,
     run |-> run, changed |-> changed, synced |-> synced]

\* the destinations of every plan of the call
PlannedDests(u) == UNION {u.planned[k] : k \in Range(Kinds)}

\* the same sync is run again after it succeeded
Resync ==
    /\ up.pc = "done"
    /\ up.run = 1
    /\ up' = NewUpload(up.flags, fs, 2, {}, PlannedDests(up))
    /\ UNCHANGED <<fs, hvars, call>>

\* the content of one file of the source session changes, and the same sync
\* is run again
ModifyAndResync ==
    /\ up.pc = "done"
    /\ up.run = 1
    /\ \E q \in FilesUnder(fs, LocalSession) :
        /\ fs' = [fs EXCEPT !.files[q] = [data |-> "z", mtime |-> "t3"]]
        /\ up' = NewUpload(up.flags, fs', 2, {q}, PlannedDests(up))
    /\ UNCHANGED <<hvars, call>>

UploadNext ==
    \/ UpRenamePass
    \/ UpValidate
    \/ UpPrepare
    \/ UpCopy
    \/ UpVerify
    \/ UpExtraRename
    \/ Resync
    \/ ModifyAndResync

\* number of files the destination session may hold before the first sync
MaxPre == 1

\* the source session: each kind present in full or absent, the videos also as
\* the camera software left them, the comment file absent or not yet prefixed;
\* and the full session with one more file in its root
SourceSessions ==
    { b \cup e \cup v \cup c :
        b \in {{}, {TxtRel, PcaXRel, PcaYRel}},
        e \in {{}, {LfMetaRel, LfBinRel, ApMetaRel, ApBinRel}},
        v \in {{}, {Cam0Rel, MetadataRel}, {RootCamRel, RootMetadataRel}},
        c \in {{}, {CommentRel}} }
    \cup {{TxtRel, PcaXRel, PcaYRel, LfMetaRel, LfBinRel, ApMetaRel, ApBinRel, Cam0Rel,
           MetadataRel, CommentRel, JsonRel}}

\* what may be in the destination session before the first sync
PreSlots == {Pca2Rel, ApBinRel, Cam0Rel, Cam1Rel}

UploadFilesystems ==
    { MkFs([q \in {LocalSession \o r : r \in s} \cup {RemoteSession \o r : r \in d} |->
                IF IsUnder(q, LocalRoot) THEN SrcVal ELSE dv]) :
        s \in SourceSessions,
        d \in {x \in SUBSET PreSlots : Cardinality(x) <= MaxPre},
        dv \in {SrcVal, [data |-> "y", mtime |-> "t2"]} }

UploadFlags ==
    [beh : BOOLEAN, eph : BOOLEAN, vid : BOOLEAN, extra : BOOLEAN,
     renVid : BOOLEAN, renExtra : BOOLEAN]

InitUpload ==
    /\ fs \in UploadFilesystems
    /\ \E fl \in UploadFlags : up = NewUpload(fl, fs, 1, {}, {})
    /\ pc = [p \in Procs |-> "idle"]
    /\ pairs = [p \in Procs |-> <<>>]
    /\ policy = [p \in Procs |-> UploadPolicy]
    /\ idx = [p \in Procs |-> 1]
    /\ err = [p \in Procs |-> NoErr]
    /\ fs0 = [p \in Procs |-> MkFs(<<>>)]
    /\ wrote = [p \in Procs |-> {}]
    /\ made = [p \in Procs |-> {}]
    /\ sawAbsent = [p \in Procs |-> {}]
    /\ call = NoCall

SpecUpload == InitUpload /\ [][UploadNext]_vars

-----------------------------------------------------------------------------
(* Properties of the helpers *)

DataOf(f, q) == f.files[q].data

\* C1 (as claimed): when the copy loop ends with an exception, the filesystem is
\* exactly what it was when the loop was entered (everything this call copied or
\* created has been removed, nothing else was touched).
C1_RollbackExact ==
    \A p \in Procs : pc[p] = "copy_raised" => fs = fs0[p]

\* C3: the pre-flight check never writes: while it runs, and when it has
\* returned or raised, source and destination trees are what they were when it
\* was entered.
C3_PreflightNeverWrites ==
    pc["A"] \in {"check", "checked", "check_raised"} => fs = fs0["A"]

\* C3 witness: the check raised at the second pair, after passing the first.
C3_Witness ==
    /\ pc["A"] = "check_raised"
    /\ idx["A"] = 2
    /\ err["A"].type = "FileExistsError"

\* the pair at position i of the call of p fails the policy on the filesystem f
PairFails(f, p, i) ==
    /\ Exists(f, pairs[p][i][2])
    /\ \/ policy[p] = "error"
       \/ /\ policy[p] = "error_if_different"
          /\ DataOf(f, pairs[p][i][1]) # DataOf(f, pairs[p][i][2])

\* C10: under a valid policy the check returns iff no pair has an existing
\* destination that the policy forbids: never under overwrite and skip, always
\* under error, and under error_if_different exactly when the data differ
\* (modification times play no role); it raises FileExistsError at the first
\* such pair and names its destination.
C10_PreflightPolicy ==
    policy["A"] \in Policies =>
        /\ pc["A"] = "checked" =>
              \A i \in 1 .. Len(pairs["A"]) : ~PairFails(fs, "A", i)
        /\ pc["A"] = "check_raised" =>
              /\ PairFails(fs, "A", idx["A"])
              /\ \A j \in 1 .. (idx["A"] - 1) : ~PairFails(fs, "A", j)
              /\ err["A"].type = "FileExistsError"
              /\ err["A"].path = pairs["A"][idx["A"]][2]

\* C10 witness: under error_if_different the check returned although a
\* destination exists whose modification time differs from its source's.
C10_Witness ==
    /\ pc["A"] = "checked"
    /\ policy["A"] = "error_if_different"
    /\ \E i \in 1 .. Len(pairs["A"]) :
          /\ Exists(fs, pairs["A"][i][2])
          /\ fs.files[pairs["A"][i][2]].mtime # fs.files[pairs["A"][i][1]].mtime

\* C9: the pre-flight check reserves nothing: a destination that a sync found
\* absent during pre-flight stays absent until some copy loop writes it, so a
\* second sync checking the same path meanwhile passes as well.
C9_NoReservation ==
    \A p \in Procs : \A d \in sawAbsent[p] :
        (\A q \in Procs : d \notin wrote[q]) => ~Exists(fs, d)

\* C9 witness: both syncs passed pre-flight for the same destination while it
\* did not exist, and both are in their copy loop about to write that path.
C9_Witness ==
    /\ pc["A"] = "copy2"
    /\ pc["B"] = "copy2"
    /\ DstOf("A") = DstOf("B")
    /\ DstOf("A") \in sawAbsent["A"] \cap sawAbsent["B"]
    /\ ~Exists(fs, DstOf("A"))

\* C9 (as claimed): the collision policy is evaluated during pre-flight only, so
\* the copy loop never ends with a collision error of its own.
C9_PolicyOnlyAtPreflight ==
    \A p \in Procs : pc[p] = "copy_raised" => err[p].type # "FileExistsError"

-----------------------------------------------------------------------------
(* Properties of upload_raw_session *)

\* what lies under the destination root
DestTree(f) ==
    [dirs |-> {d \in f.dirs : IsUnder(d, RemoteRoot)},
     files |-> Restrict(f.files, {q \in DOMAIN f.files : IsUnder(q, RemoteRoot)})]

\* C2 (as claimed): a sync that ends with an error of source validation, file
\* resolution or the pre-flight check of any kind has created or changed
\* nothing under the destination root.
C2_AbortBeforeAnyWrite ==
    (up.pc = "raised" /\ up.errAt \in {"validate", "resolve", "preflight"})
        => DestTree(fs) = DestTree(up.start)

\* C4: the same sync run again after it succeeded, with nothing changed in
\* between, never raises and writes nothing: the destination tree stays what it
\* was when the second run started.
C4_ResyncNoOp ==
    (up.run = 2 /\ up.changed = {}) =>
        /\ up.pc # "raised"
        /\ up.written = {}
        /\ DestTree(fs) = DestTree(up.start)

\* C4 witness: the second run of a sync of all four kinds has returned.
C4_Witness ==
    /\ up.run = 2
    /\ up.changed = {}
    /\ up.pc = "done"
    /\ up.returned = Range(Kinds)

\* C5: when one source file that the first sync had copied is changed and the
\* sync is run again, the second run cannot return: it ends with the
\* FileExistsError that names the destination path of that file.
C5_ChangedFileNamed ==
    (up.run = 2 /\ up.pc \in {"done", "raised"}) =>
        \A q \in up.changed :
            SourceToDest(q, LocalRoot, RemoteRoot) \in up.synced =>
                /\ up.pc = "raised"
                /\ up.errAt = "preflight"
                /\ up.err.type = "FileExistsError"
                /\ up.err.path = SourceToDest(q, LocalRoot, RemoteRoot)

\* C5 witness: a changed probe file stopped the second run after the
\* behavioural data had gone through again.
C5_Witness ==
    /\ up.run = 2
    /\ up.changed = {LocalSession \o ApBinRel}
    /\ up.pc = "raised"
    /\ up.err.path = RemoteSession \o ApBinRel
    /\ "behavior" \in up.returned

\* C6 (as claimed): for every kind whose upload returned, re-validating the
\* destination gave exactly the planned destination paths.
C6_ManifestComplete ==
    up.pc # "idle" =>
        \A k \in up.returned \ {"extra"} : up.found[k] = up.planned[k]

\* C7: when the verification of the destination fails, every file this sync
\* copied is still in the destination with the content of its source.
C7_VerifyFailureKeepsCopy ==
    (up.pc = "raised" /\ up.errAt = "verify") =>
        \A d \in up.written :
            /\ d \in DOMAIN fs.files
            /\ fs.files[d] = fs.files[SourceToDest(d, RemoteRoot, LocalRoot)]

\* C7 witness: the verification failed after this sync had copied files.
C7_Witness ==
    /\ up.pc = "raised"
    /\ up.errAt = "verify"
    /\ up.written # {}

\* C8 (as claimed): the copy is entered only with a plan that passes the
\* pre-flight check, nothing in the source is renamed once source validation
\* has started, and the sync returns only when everything it copied has been
\* found by a verification of the destination.
C8_PhaseOrder ==
    up.pc # "idle" =>
        /\ up.pc = "copy" =>
              CheckListOfFilesBeforeCopy(fs, up.plan, UploadPolicy).err = NoErr
        /\ ~up.lateRename
        /\ up.pc = "done" =>
              up.written \subseteq UNION {up.found[k] : k \in Range(Kinds)}

-----------------------------------------------------------------------------
(* data_validation.py: the session name.  A string is a sequence of        *)
(* characters here, so that parsing and formatting are computed.           *)

\* nothing runs but the operation in call
OthersIdle ==
    /\ pc = [p \in Procs |-> "idle"]
    /\ pairs = [p \in Procs |-> <<>>]
    /\ policy = [p \in Procs |-> UploadPolicy]
    /\ idx = [p \in Procs |-> 1]
    /\ err = [p \in Procs |-> NoErr]
    /\ fs0 = [p \in Procs |-> MkFs(<<>>)]
    /\ wrote = [p \in Procs |-> {}]
    /\ made = [p \in Procs |-> {}]
    /\ sawAbsent = [p \in Procs |-> {}]
    /\ up = NoUpload

Digits == <<"0", "1", "2", "3", "4", "5", "6", "7", "8", "9">>

IsDigit(c) == \E i \in 1 .. Len(Digits) : Digits[i] = c

DigitVal(c) == (CHOOSE i \in 1 .. Len(Digits) : Digits[i] = c) - 1

\* int() of a run of digits
RECURSIVE Num(_)
Num(run) ==
    IF Len(run) = 0 THEN 0
    ELSE 10 * Num(SubSeq(run, 1, Len(run) - 1)) + DigitVal(run[Len(run)])

AllDigits(run) == Len(run) > 0 /\ \A i \in 1 .. Len(run) : IsDigit(run[i])

\* the pieces of s between the occurrences of the character c
RECURSIVE SplitFrom(_, _, _, _)
SplitFrom(s, c, i, cur) ==
    IF i > Len(s) THEN <<cur>>
    ELSE IF s[i] = c THEN <<cur>> \o SplitFrom(s, c, i + 1, <<>>)
    ELSE SplitFrom(s, c, i + 1, Append(cur, s[i]))

Split(s, c) == SplitFrom(s, c, 1, <<>>)

\* folder_name.startswith(subject_name)
StartsWith(s, pre) == Len(s) >= Len(pre) /\ SubSeq(s, 1, Len(pre)) = pre

IsLeap(y) == (y % 4 = 0 /\ y % 100 # 0) \/ y % 400 = 0

DaysIn(y, m) ==
    IF m = 2 THEN (IF IsLeap(y) THEN 29 ELSE 28)
    ELSE IF m \in {4, 6, 9, 11} THEN 30 ELSE 31

\* datetime.strptime(time_str, "%Y_%m_%d_%H_%M"): the year takes four digits,
\* the other fields one or two; the value None stands for its ValueError
NoTime == <<>>

Strptime(str) ==
    LET f == Split(str, "_")
        one(run, lo, hi) == Len(run) = 1 /\ Num(run) \in lo .. hi
        two(run, lo, hi) == Len(run) = 2 /\ Num(run) \in lo .. hi
    IN  IF Len(f) # 5 \/ \E i \in 1 .. Len(f) : ~AllDigits(f[i]) THEN NoTime
        ELSE IF Len(f[1]) # 4 THEN NoTime
        ELSE IF ~(two(f[2], 1, 12) \/ one(f[2], 1, 9)) THEN NoTime
        ELSE IF ~(two(f[3], 1, 31) \/ one(f[3], 1, 9)) THEN NoTime
        ELSE IF ~(two(f[4], 0, 23) \/ one(f[4], 0, 9)) THEN NoTime
        ELSE IF ~(two(f[5], 0, 59) \/ one(f[5], 0, 9)) THEN NoTime
        ELSE IF Num(f[1]) < 1 \/ Num(f[3]) > DaysIn(Num(f[1]), Num(f[2])) THEN NoTime
        ELSE <<Num(f[1]), Num(f[2]), Num(f[3]), Num(f[4]), Num(f[5])>>

Pad2(n) == <<Digits[(n \div 10) + 1], Digits[(n % 10) + 1]>>

\* the years of the model have four digits
Pad4(n) == Pad2(n \div 100) \o Pad2(n % 100)

\* date.strftime("%Y_%m_%d_%H_%M")
Strftime(t) ==
    Pad4(t[1]) \o <<"_">> \o Pad2(t[2]) \o <<"_">> \o Pad2(t[3]) \o <<"_">>
        \o Pad2(t[4]) \o <<"_">> \o Pad2(t[5])

\* Session._extract_date_str
ExtractDateStr(folderName, subjectName) ==
    SubSeq(folderName, Len(subjectName) + 2, Len(folderName))

\* Session._validate_time_format
ValidateTimeFormat(str) ==
    IF Strptime(str) = NoTime
    THEN Raise("ValueError", "doesn't match expected format", <<>>)
    ELSE IF str # Strftime(Strptime(str))
    THEN Raise("ValueError", "doesn't match expected format", <<>>)
    ELSE NoErr

\* Session.prescreen_folder_name
PrescreenFolderName(folderName, subjectName) ==
    IF ~StartsWith(folderName, subjectName)
    THEN Raise("ValueError", "Folder name has to start with subject name", <<>>)
    ELSE IF Len(folderName) = Len(subjectName)
    THEN Raise("IndexError", "string index out of range", <<>>)
    ELSE IF folderName[Len(subjectName) + 1] # "_"
    THEN Raise("ValueError", "Folder name has to have an underscore after subject name",
               <<>>)
    ELSE ValidateTimeFormat(ExtractDateStr(folderName, subjectName))

\* Session.extract_date
ExtractDate(folderName, subjectName) == Strptime(ExtractDateStr(folderName, subjectName))

\* Session.get_expected_folder_name
GetExpectedFolderName(subjectName, date) == subjectName \o <<"_">> \o Strftime(date)

\* the subject of the model
SubjectName == <<"M", "1">>

\* Session.from_disk, up to the date: prescreen_folder_name, then extract_date
ParseName ==
    /\ call.op = "parse"
    /\ call.pc = "start"
    /\ LET e == PrescreenFolderName(call.s, SubjectName) IN
        call' = IF e # NoErr THEN [call EXCEPT !.pc = "failed", !.err = e]
                ELSE [call EXCEPT !.pc = "parsed",
                                  !.date = ExtractDate(call.s, SubjectName)]
    /\ UNCHANGED <<fs, hvars, up>>

\* the name the session is expected to have, from its subject and its date
FormatName ==
    /\ call.op = "parse"
    /\ call.pc = "parsed"
    /\ call' = [call EXCEPT !.pc = "formatted",
                            !.out = GetExpectedFolderName(SubjectName, call.date)]
    /\ UNCHANGED <<fs, hvars, up>>

NameNext == ParseName \/ FormatName

\* the renderings of each field the folder names of the model are made of
YearStrings == {<<"2", "0", "2", "3">>, <<"2", "0", "2", "4">>, <<"2", "3">>}
MonthStrings == {<<"0", "4">>, <<"4">>, <<"0", "2">>, <<"1", "2">>, <<"1", "3">>, <<"0", "0">>}
DayStrings == {<<"0", "4">>, <<"4">>, <<"2", "9">>, <<"3", "0">>, <<"3", "1">>, <<"3", "2">>}
HourStrings == {<<"1", "6">>, <<"0", "7">>, <<"7">>, <<"2", "4">>}
MinuteStrings == {<<"0", "0">>, <<"0">>, <<"5", "9">>, <<"6", "0">>}

DateStrings ==
    { y \o j \o m \o j \o d \o j \o h \o j \o mi :
        y \in YearStrings, m \in MonthStrings, d \in DayStrings, h \in HourStrings,
        mi \in MinuteStrings, j \in {<<"_">>} }
    \cup {<<>>, <<"2", "0", "2", "3", "_", "0", "4", "_", "0", "4", "_", "1", "6">>,
          <<"2", "0", "2", "3", "-", "0", "4", "-", "0", "4", "-", "1", "6", "-", "0", "0">>,
          <<"2", "0", "2", "3", "_", "0", "4", "_", "0", "4", "_", "1", "6", "_", "0", "0", "_">>,
          <<"2", "0", "2", "3", "_", "0", "4", "_", "0", "4", "_", "1", "6", "_", "0", "0", "x">>}

FolderNames ==
    { pre \o sep \o d :
        pre \in {SubjectName, <<"M">>, <<"M", "2">>, <<>>},
        sep \in {<<"_">>, <<"-">>, <<>>},
        d \in DateStrings }

InitName ==
    /\ fs = MkFs(<<>>)
    /\ OthersIdle
    /\ \E s \in FolderNames :
        call = [op |-> "parse", pc |-> "start", s |-> s, err |-> NoErr,
                date |-> NoTime, out |-> <<>>]

SpecName == InitName /\ [][NameNext]_vars

-----------------------------------------------------------------------------
(* Properties of the session name *)

\* the timestamps the folder names of the model can spell
Timestamps ==
    {t \in {2023, 2024} \X (1 .. 12) \X {4, 29, 30, 31} \X {7, 16} \X {0, 59} :
        t[3] <= DaysIn(t[1], t[2])}

\* s is the subject, an underscore and the zero-padded rendering of a timestamp
Canonical(s) == \E t \in Timestamps : s = SubjectName \o <<"_">> \o Strftime(t)

\* C11 (as claimed): parsing succeeds exactly on the canonical names, the name
\* formatted from what it returned is the string parsed, and every other
\* string fails with ValueError.
C11_ParseExactlyCanonical ==
    (call.op = "parse" /\ call.pc # "start") =>
        /\ call.err = NoErr <=> Canonical(call.s)
        /\ call.pc = "formatted" => call.out = call.s
        /\ call.err # NoErr => call.err.type = "ValueError"

-----------------------------------------------------------------------------
(* The rename passes run on their own: rename_extra_files_in_session       *)
(* (extra_file_handling.py 168-198) and rename_raw_videos_of_session       *)
(* (video_renaming.py 11-134), each called again after it returned.        *)

\* how many times in a row a pass is called
MaxRuns == 2

\* rename_extra_files_in_session(session_path, ...) called once more
CallRenameExtraFiles ==
    /\ call.op = "rename_extra"
    /\ call.run < MaxRuns
    /\ call.err = NoErr
    /\ LET r == RenameExtraFilesInSession(fs, LocalSession) IN
        /\ fs' = r.fs
        /\ call' = [call EXCEPT !.run = @ + 1, !.err = r.err, !.prev = fs]
    /\ UNCHANGED <<hvars, up>>

\* rename_raw_videos_of_session(session_path, subject_name) called once more
CallRenameRawVideos ==
    /\ call.op = "rename_videos"
    /\ call.run < MaxRuns
    /\ call.err = NoErr
    /\ LET r == RenameRawVideosOfSession(fs, LocalSession) IN
        /\ fs' = r.fs
        /\ call' = [call EXCEPT !.run = @ + 1, !.err = r.err, !.prev = fs]
    /\ UNCHANGED <<hvars, up>>

RenameNext == CallRenameExtraFiles \/ CallRenameRawVideos

\* the extra files of a session: the whitelisted comment file and a text file
\* next to the recording, each bare, prefixed, or both
ExtraVariants == SUBSET {CommentRel, SCommentRel, NotesRel, SNotesRel}

\* the videos of a session: none, canonical, as the camera software named them,
\* partly renamed, in the session root, in a folder of another name, and the
\* same without the sidecar or with a second sidecar in the root
VideoVariants ==
    { {},
      {Cam0Rel, MetadataRel},
      {Cam0Rel, Cam1Rel, MetadataRel},
      {CamRawRel, MetadataRel},
      {CamRawRel, CamRaw1Rel, MetadataRel},
      {CamRawRel, Cam1Rel, MetadataRel},
      {CamRawRel, Cam0Rel, MetadataRel},
      {CamRawRel},
      {CamRawRel, MetadataRel, SCommentRel},
      {RootCamRel, RootMetadataRel},
      {RootCamRel},
      {OtherCamRawRel, OtherMetadataRel},
      {OtherCam0Rel, OtherMetadataRel},
      {OtherCamRawRel},
      {OtherCamRawRel, OtherMetadataRel, MetadataRel},
      {Cam0Rel, MetadataRel, RootMetadataRel},
      {OtherCamRawRel, RootCamRel, RootMetadataRel} }

RenameFilesystems ==
    { MkFs([q \in {LocalSession \o r : r \in x \cup v} |-> SrcVal]) :
        x \in ExtraVariants, v \in VideoVariants }

InitRename ==
    /\ fs \in RenameFilesystems
    /\ OthersIdle
    /\ \E op \in {"rename_extra", "rename_videos"} :
        call = [op |-> op, run |-> 0, err |-> NoErr, first |-> fs, prev |-> fs]

SpecRename == InitRename /\ [][RenameNext]_vars

-----------------------------------------------------------------------------
(* Properties of the rename passes *)

\* C12 (as claimed): a rename pass called again right after a call that
\* succeeded raises nothing and leaves the tree as that call left it.
C12_SecondRunNoOp ==
    (call.op \in {"rename_extra", "rename_videos"} /\ call.run >= 2) =>
        /\ call.err = NoErr
        /\ fs = call.prev

\* C12: a rename pass called again right after a call that succeeded leaves
\* the tree as that call left it; the extra-file pass raises nothing, and the
\* video pass raises only what the validator raises on that tree, which is
\* never a ValueError.
C12_SecondRunChangesNothing ==
    (call.op \in {"rename_extra", "rename_videos"} /\ call.run >= 2) =>
        /\ fs = call.prev
        /\ call.op = "rename_extra" => call.err = NoErr
        /\ call.err # NoErr =>
            /\ call.err = ValidateVideos(fs, LocalSession).err
            /\ call.err.type # "ValueError"

\* C12, its case: the first call renamed something and the second call
\* returned without an error
C12_Witness ==
    /\ call.op \in {"rename_extra", "rename_videos"}
    /\ call.run = 2
    /\ call.err = NoErr
    /\ call.prev # call.first
    /\ fs = call.prev

\* C13 (as claimed): an extra-file rename pass that raises FileExistsError has
\* renamed no file of the session.
C13_CollisionRenamesNothing ==
    (call.op = "rename_extra" /\ call.run = 1 /\ call.err.type = "FileExistsError") =>
        fs = call.first

\* the videos of a session are all in one place with their sidecar and nothing
\* else of the video structure is anywhere else: in a folder of another name,
\* in the session root, or in the expected folder under the camera software's
\* names; the structure does not validate as it is
Remediable(f, sess) ==
    LET folder == sess \o CamerasRel
        avis == {q \in FilesUnder(f, sess) : ExtOf(Name(q)) = ".avi"}
        metas == {q \in FilesUnder(f, sess) : Name(q) = "metadata.csv"}
        found == {Parent(q) : q \in avis}
    IN  /\ ValidateVideos(f, sess).err # NoErr
        /\ Cardinality(found) = 1
        /\ \E d \in found :
            /\ metas = {d \o <<"metadata.csv">>}
            /\ d # sess => FilesIn(f, d) = avis \cup metas /\ DirsIn(f, d) = {}
            /\ d # folder => folder \notin f.dirs
            /\ d = folder => \A q \in avis : ~IsVideoName(Name(q))

\* C14: when rename_raw_videos_of_session returns on a session whose videos
\* were in a remediable state, the video structure validates.
C14_RemediedIsValid ==
    (/\ call.op = "rename_videos"
     /\ call.run >= 1
     /\ call.err = NoErr
     /\ Remediable(call.first, LocalSession)) =>
        ValidateVideos(fs, LocalSession).err = NoErr

\* C14, its case: videos found in the session root under the camera software's
\* names were moved and renamed
C14_Witness ==
    /\ call.op = "rename_videos"
    /\ call.run = 1
    /\ call.err = NoErr
    /\ Remediable(call.first, LocalSession)
    /\ LocalSession \o RootCamRel \in DOMAIN call.first.files
    /\ LocalSession \o Cam0Rel \in DOMAIN fs.files

-----------------------------------------------------------------------------
(* Batch passes over the sessions of a subject: validate_sessions          *)
(* (cli.py 1080-1097), validate_today (cli.py 1174-1195) and               *)
(* SubjectStore.get_valid_sessions (data_validation.py 173-181).           *)

\* the session folders of the subject, in the order iterdir lists them
BatchSessions == <<"S", "T", "U">>

SubjectDir == LocalRoot \o <<"raw", "M">>

\* the day validate_today runs on, and how strftime("%Y_%m_%d") spells it
Today == <<2024, 2, 29>>
DayStr == Pad4(Today[1]) \o <<"_">> \o Pad2(Today[2]) \o <<"_">> \o Pad2(Today[3])

\* sub in s
Contains(s, sub) ==
    \E i \in 1 .. Len(s) : i + Len(sub) - 1 <= Len(s) /\ SubSeq(s, i, i + Len(sub) - 1) = sub

\* the folder names a session of the model can have: of today, of another
\* day, the subject alone, and today's date with an hour that is not padded
CanonicalToday == SubjectName \o <<"_">> \o Strftime(<<2024, 2, 29, 7, 0>>)

BatchNames ==
    { CanonicalToday,
      SubjectName \o <<"_">> \o Strftime(<<2023, 4, 4, 16, 59>>),
      SubjectName,
      SubjectName \o <<"_">> \o DayStr \o <<"_", "7", "_", "0", "0">> }

\* what a session of a batch holds: nothing, a valid session, videos under the
\* camera software's names, videos in two places
BatchVariants ==
    { {},
      {TxtRel, PcaXRel, PcaYRel, Cam0Rel, MetadataRel},
      {TxtRel, PcaXRel, PcaYRel, CamRawRel, MetadataRel},
      {TxtRel, PcaXRel, PcaYRel, OtherCamRawRel, RootCamRel, RootMetadataRel} }

\* validate_raw_session as validate_sessions calls it, with the two rename flags
ValidateRawSessionRenamingFirst(f, sess, beh, eph, vid, renVid, renExtra) ==
    LET a == IF renVid THEN RenameRawVideosOfSession(f, sess) ELSE [fs |-> f, err |-> NoErr]
        b == IF a.err = NoErr /\ renExtra THEN RenameExtraFilesInSession(a.fs, sess) ELSE a
    IN  IF b.err # NoErr THEN b
        ELSE [fs |-> b.fs, err |-> ValidateRawSession(b.fs, sess, beh, eph, vid)]

\* e.args of an exception: a bare assert raises AssertionError() with no args
HasArgs(e) == e.type # "AssertionError"

\* the loop goes on to the next session, or returns after the last one
BatchAdvance(c, s, result) ==
    [c EXCEPT !.todo = Tail(@), !.count[s] = @ + 1, !.out[s] = result,
              !.pc = IF Len(c.todo) = 1 THEN "done" ELSE "loop"]

\* the handler of the loop: print(... e.args[0] ...)
BatchHandle(c, s, e) ==
    IF e = NoErr THEN BatchAdvance(c, s, "good")
    ELSE IF HasArgs(e) THEN BatchAdvance(c, s, "problem")
    ELSE [c EXCEPT !.count[s] = @ + 1, !.pc = "failed",
                   !.err = Raise("IndexError", "tuple index out of range", <<>>)]

\* validate_sessions, one turn of its loop
ValidateSessionsStep ==
    /\ call.op = "validate_sessions"
    /\ call.pc = "loop"
    /\ LET s == Head(call.todo)
           r == ValidateRawSessionRenamingFirst(fs, SubjectDir \o <<s>>, call.beh, FALSE,
                                                TRUE, call.renVid, call.renExtra)
       IN  /\ fs' = r.fs
           /\ call' = BatchHandle(call, s, r.err)
    /\ UNCHANGED <<hvars, up>>

\* validate_today, one turn of its loop over the sessions of the day
ValidateTodayStep ==
    /\ call.op = "validate_today"
    /\ call.pc = "loop"
    /\ LET s == Head(call.todo) IN
        call' = BatchHandle(call, s,
                    ValidateRawSession(fs, SubjectDir \o <<s>>, call.beh, FALSE, TRUE))
    /\ UNCHANGED <<fs, hvars, up>>

\* get_valid_sessions, one turn of its loop: from_disk checks the name, then
\* loads the recordings and the behavioural data, which raises or not
GetValidSessionsStep ==
    /\ call.op = "get_valid_sessions"
    /\ call.pc = "loop"
    /\ \E loads \in BOOLEAN :
        LET s == Head(call.todo)
            e == PrescreenFolderName(call.names[s], SubjectName)
        IN  call' = BatchAdvance(call, s, IF e = NoErr /\ loads THEN "valid" ELSE "skipped")
    /\ UNCHANGED <<fs, hvars, up>>

BatchNext == ValidateSessionsStep \/ ValidateTodayStep \/ GetValidSessionsStep

\* list_subject_sessions_on_day: the folders whose name contains the day
ListSubjectSessionsOnDay(names) ==
    LET OnDay(s) == Contains(names[s], DayStr) IN SelectSeq(BatchSessions, OnDay)

\* the subject folder whose session s holds the files v[s]
MkBatch(v) ==
    LET g == MkFs([q \in UNION {{SubjectDir \o <<s>> \o r : r \in v[s]} :
                                    s \in Range(BatchSessions)} |-> SrcVal])
    IN  [g EXCEPT !.dirs = @ \cup {SubjectDir} \cup
                           {SubjectDir \o <<s>> : s \in Range(BatchSessions)}]

BatchFilesystems == {MkBatch(v) : v \in [Range(BatchSessions) -> BatchVariants]}

ValidBatch ==
    MkBatch([s \in Range(BatchSessions) |->
                {TxtRel, PcaXRel, PcaYRel, Cam0Rel, MetadataRel}])

NewBatch(op, names, todo, beh, renVid, renExtra) ==
    [op |-> op, pc |-> IF todo = <<>> THEN "done" ELSE "loop", todo |-> todo,
     pass |-> todo, names |-> names, beh |-> beh, renVid |-> renVid,
     renExtra |-> renExtra, err |-> NoErr,
     count |-> [s \in Range(BatchSessions) |-> 0],
     out |-> [s \in Range(BatchSessions) |-> "none"]]

InitBatch ==
    /\ fs \in BatchFilesystems
    /\ OthersIdle
    /\ \E names \in [Range(BatchSessions) -> BatchNames], beh \in BOOLEAN,
          renVid \in BOOLEAN :
        \/ /\ names = [s \in Range(BatchSessions) |-> CanonicalToday]
           /\ call = NewBatch("validate_sessions", names, BatchSessions, beh, renVid,
                              renVid)
        \/ /\ beh /\ ~renVid
           /\ call = NewBatch("validate_today", names, ListSubjectSessionsOnDay(names),
                              TRUE, FALSE, FALSE)
        \/ /\ beh /\ ~renVid
           /\ fs = ValidBatch
           /\ call = NewBatch("get_valid_sessions", names, BatchSessions, TRUE, FALSE,
                              FALSE)

SpecBatch == InitBatch /\ [][BatchNext]_vars

-----------------------------------------------------------------------------
(* Properties of the batch passes *)

\* C15 (as claimed): a batch pass does not fail, no session of the pass is
\* validated more than once, and when the pass is over every session of the
\* pass has been validated exactly once.
C15_BatchIsolatesSessions ==
    (call.op \in {"validate_sessions", "validate_today", "get_valid_sessions"}) =>
        /\ call.pc # "failed"
        /\ \A i \in 1 .. Len(call.pass) : call.count[call.pass[i]] <= 1
        /\ call.pc = "done" => \A i \in 1 .. Len(call.pass) : call.count[call.pass[i]] = 1

-----------------------------------------------------------------------------
(* Further properties of upload_raw_session *)

\* the source session holds nothing of the kind
AbsentKind(f, k) ==
    CASE k = "behavior" ->
            {q \in FilesIn(f, LocalSession) :
                ExtOf(Name(q)) \in {".pca", ".txt"} /\ ~IsWhitelisted(Name(q))} = {}
      [] k = "ephys" -> {d \in DirsIn(f, LocalSession) : IsRecordingName(Name(d))} = {}
      [] k = "videos" -> LocalSession \o CamerasRel \notin f.dirs

\* the kind whose absence the error reports, "none" for any other error
AbsenceReported(e) ==
    CASE e.type = "WrongNumberOfFilesError" -> "behavior"
      [] e.type = "FileNotFoundError" /\ e.msg = "no recordings found" -> "ephys"
      [] e.type = "FileNotFoundError" /\ e.msg = "no video folder found" -> "videos"
      [] OTHER -> "none"

\* C16: upload_raw_session never returns when a kind it includes is absent from
\* the source, and an error about the source that reports missing files of a
\* kind reports a kind that is included: the wrong file count for behaviour,
\* "no recordings found" for ephys, "no video folder found" for videos.
C16_AbsenceOfIncludedKinds ==
    /\ up.pc = "done" =>
        \A k \in {"behavior", "ephys", "videos"} :
            Included(up.flags, k) => ~AbsentKind(fs, k)
    /\ (up.pc = "raised" /\ up.errAt \in {"validate", "resolve"}
            /\ AbsenceReported(up.err) # "none") =>
        Included(up.flags, AbsenceReported(up.err))
    /\ (up.pc = "raised" /\ up.errAt \notin {"flags", "rename"} /\ up.flags.beh
            /\ AbsentKind(fs, "behavior")) =>
        AbsenceReported(up.err) = "behavior"
    /\ (up.pc = "raised" /\ up.errAt = "resolve") =>
        /\ AbsenceReported(up.err) \in {"ephys", "videos"}
        /\ AbsentKind(fs, AbsenceReported(up.err))

\* C16, its cases: the call returned although kinds it does not include are
\* absent, and the call raised for an included kind that is absent
C16_Witness ==
    /\ up.pc = "raised"
    /\ up.run = 1
    /\ up.err.msg = "no recordings found"
    /\ up.flags.eph /\ ~up.flags.vid
    /\ AbsentKind(fs, "ephys") /\ AbsentKind(fs, "videos")

\* C17 (as claimed): a call rejected for its flags (a rename flag without the
\* include flag of the same kind) raises ValueError and has renamed nothing in
\* the source and copied nothing.
C17_RejectedFlagsChangeNothing ==
    /\ (up.pc \notin {"idle", "rename"} /\ up.run = 1
            /\ \/ up.flags.renVid /\ ~up.flags.vid
               \/ up.flags.renExtra /\ ~up.flags.extra) =>
        (up.pc = "raised" /\ up.errAt = "flags" /\ up.err.type = "ValueError")
    /\ (up.pc = "raised" /\ up.errAt = "flags") => fs = up.start

\* the files of the source session that a manifest of the upload lists
SourceManifest(f) ==
    Range(ValidateBehavior(f, LocalSession).files)
        \cup Range(ValidateEphys(f, LocalSession).files)
        \cup Range(ValidateVideos(f, LocalSession).files)
        \cup Range(FindExtraFilesWithExtensions(f, LocalSession))
        \cup Range(FindWhitelistedFilesInRoot(f, LocalSession))

\* the files and folders under a session, by their path inside it
EntriesOf(f, sess) ==
    {SubSeq(q, Len(sess) + 1, Len(q)) :
        q \in {x \in DOMAIN f.files \cup f.dirs : IsUnder(x, sess) /\ x # sess}}

\* upload_raw_session returned from its first run, with every kind and the
\* extra files included, and there was no destination session before
FullUploadToNewSession ==
    /\ up.pc = "done"
    /\ up.run = 1
    /\ up.flags.beh /\ up.flags.eph /\ up.flags.vid /\ up.flags.extra
    /\ RemoteSession \notin up.start.dirs

\* C18 (as claimed): after such an upload every file of the source manifests is
\* at its mapped destination with the same content, and the two session
\* directories hold the same entries.
C18_DestMirrorsSource ==
    FullUploadToNewSession =>
        /\ \A q \in SourceManifest(fs) :
            LET d == SourceToDest(q, LocalRoot, RemoteRoot) IN
            d \in DOMAIN fs.files /\ fs.files[d] = fs.files[q]
        /\ EntriesOf(fs, RemoteSession) = EntriesOf(fs, LocalSession)

\* C18: after such an upload every file of the source manifests is at its
\* mapped destination with the same content, and the destination session holds
\* exactly the files of the source manifests and their folders; a source file
\* that no manifest lists is not uploaded.
C18_DestMirrorsManifests ==
    FullUploadToNewSession =>
        /\ \A q \in SourceManifest(fs) :
            LET d == SourceToDest(q, LocalRoot, RemoteRoot) IN
            d \in DOMAIN fs.files /\ fs.files[d] = fs.files[q]
        /\ FilesUnder(fs, RemoteSession) =
               {SourceToDest(q, LocalRoot, RemoteRoot) : q \in SourceManifest(fs)}
        /\ EntriesOf(fs, RemoteSession) \subseteq EntriesOf(fs, LocalSession)
        /\ \A r \in EntriesOf(fs, LocalSession) \ EntriesOf(fs, RemoteSession) :
            /\ LocalSession \o r \in DOMAIN fs.files
            /\ LocalSession \o r \notin SourceManifest(fs)

\* C18, its case: the upload of a full session returned and the destination
\* holds the behavioural, ephys, video and extra files of the source
C18_Witness ==
    /\ FullUploadToNewSession
    /\ {TxtRel, ApBinRel, Cam0Rel, SCommentRel} \subseteq EntriesOf(fs, RemoteSession)

-----------------------------------------------------------------------------
(* download_raw_session (data_transfer.py 382-507): the session on the     *)
(* server is the source, the local root the destination.                   *)

DownloadPolicy == "error_if_different"

DownloadKinds == <<"behavior", "ephys", "videos", "extra">>

\* the _prepare_copying_raw_* function of the kind, from the server to here
PrepareDownloadOf(f, k) ==
    CASE k = "behavior" ->
            PrepareCopyingRawBehavioralData(f, RemoteSession, RemoteRoot, LocalRoot,
                                            DownloadPolicy)
      [] k = "ephys" ->
            PrepareCopyingRawEphysData(f, RemoteSession, RemoteRoot, LocalRoot,
                                       DownloadPolicy)
      [] k = "videos" ->
            PrepareCopyingRawVideos(f, RemoteSession, RemoteRoot, LocalRoot, DownloadPolicy)
      [] k = "extra" ->
            PrepareCopyingRawExtraFiles(f, RemoteSession, RemoteRoot, LocalRoot,
                                        DownloadPolicy)

\* the variant without the try around each _prepare_copying_raw_* call: the
\* first failure is raised
DownloadPrepareStrict(f, req) ==
    LET asked == {k \in Range(DownloadKinds) : k = "extra" \/ req[k]}
        bad == {k \in asked : PrepareDownloadOf(f, k).err # NoErr}
        inc == {k \in asked : Len(PrepareDownloadOf(f, k).plan) > 0}
    IN  [inc |-> inc, warned |-> asked \ inc,
         plans |-> [k \in Range(DownloadKinds) |->
                       IF k \in inc THEN PrepareDownloadOf(f, k).plan ELSE <<>>],
         err |-> IF bad = {} THEN NoErr
                 ELSE PrepareDownloadOf(f, CHOOSE k \in bad : TRUE).err]

\* lines 406-482: what is on the server is checked kind by kind; a kind whose
\* check raises, or that has no files, is given up with a warning
DownloadPrepare(f, req) ==
    LET asked == {k \in Range(DownloadKinds) : k = "extra" \/ req[k]}
        inc == {k \in asked : /\ PrepareDownloadOf(f, k).err = NoErr
                               /\ Len(PrepareDownloadOf(f, k).plan) > 0}
    IN  [inc |-> inc, warned |-> asked \ inc,
         plans |-> [k \in Range(DownloadKinds) |->
                       IF k \in inc THEN PrepareDownloadOf(f, k).plan ELSE <<>>],
         err |-> NoErr]

\* the kind copied after position i, "none" after the last one
NextDownload(inc, i) ==
    LET later == {j \in (i + 1) .. Len(DownloadKinds) : DownloadKinds[j] \in inc} IN
    IF later = {} THEN "none"
    ELSE DownloadKinds[CHOOSE j \in later : \A k \in later : j <= k]

DownloadAdvance(c, i) ==
    LET k == NextDownload(c.inc, i) IN
    IF k = "none" THEN [c EXCEPT !.pc = "validate", !.kind = "none"]
    ELSE [c EXCEPT !.pc = "copy", !.kind = k]

DlPrepare ==
    /\ call.op = "download"
    /\ call.pc = "prepare"
    /\ LET r == DownloadPrepare(fs, call.req)
           c == [call EXCEPT !.inc = r.inc, !.warned = r.warned, !.plans = r.plans]
       IN  call' = IF r.err # NoErr
                   THEN [c EXCEPT !.pc = "raised", !.err = r.err, !.errAt = "prepare"]
                   ELSE DownloadAdvance(c, 0)
    /\ UNCHANGED <<fs, hvars, up>>

\* lines 484-491: _copy_list_of_files of the next kind that is still included
DlCopy ==
    /\ call.op = "download"
    /\ call.pc = "copy"
    /\ \E failAt \in 0 .. Len(call.plans[call.kind]) :
       \E io \in IF failAt = 0 THEN {"ok"} ELSE {"fail_clean", "fail_partial"} :
        LET r == CopyListOfFiles(fs, call.plans[call.kind], DownloadPolicy, failAt, io)
            i == CHOOSE j \in 1 .. Len(DownloadKinds) : DownloadKinds[j] = call.kind
        IN  /\ fs' = r.fs
            /\ call' = IF r.err # NoErr
                       THEN [call EXCEPT !.pc = "raised", !.err = r.err, !.errAt = "copy"]
                       ELSE DownloadAdvance(call, i)
    /\ UNCHANGED <<hvars, up>>

\* lines 493-505: validate_raw_session on what is here now, for the kinds kept
DlValidate ==
    /\ call.op = "download"
    /\ call.pc = "validate"
    /\ LET e == ValidateRawSession(fs, LocalSession, "behavior" \in call.inc,
                                   "ephys" \in call.inc, "videos" \in call.inc)
       IN  call' = IF e # NoErr
                   THEN [call EXCEPT !.pc = "raised", !.err = e, !.errAt = "validate"]
                   ELSE [call EXCEPT !.pc = "done"]
    /\ UNCHANGED <<fs, hvars, up>>

DownloadNext == DlPrepare \/ DlCopy \/ DlValidate

\* the session on the server: each kind absent, valid or invalid, with or
\* without a comment file
ServerSessions ==
    { b \cup e \cup v \cup c :
        b \in {{}, {TxtRel, PcaXRel, PcaYRel}, {TxtRel, PcaXRel, PcaYRel, Pca2Rel}},
        e \in {{}, {LfMetaRel, LfBinRel, ApMetaRel, ApBinRel}, {LfMetaRel, LfBinRel}},
        v \in {{}, {Cam0Rel, MetadataRel}, {CamRawRel, MetadataRel}},
        c \in {{}, {SCommentRel}} }

\* what is here already: nothing, or one file of a kind, the same or another
LocalSlots == {TxtRel, ApBinRel, Cam0Rel, SCommentRel}

DownloadFilesystems ==
    { MkFs([q \in {RemoteSession \o r : r \in s} \cup {LocalSession \o r : r \in d} |->
                IF IsUnder(q, RemoteRoot) THEN SrcVal ELSE dv]) :
        s \in ServerSessions,
        d \in {x \in SUBSET LocalSlots : Cardinality(x) <= MaxPre},
        dv \in {SrcVal, [data |-> "y", mtime |-> "t2"]} }

InitDownload ==
    /\ fs \in DownloadFilesystems
    /\ OthersIdle
    /\ \E req \in [{"behavior", "ephys", "videos"} -> BOOLEAN] :
        call = [op |-> "download", pc |-> "prepare", kind |-> "none", req |-> req,
                inc |-> {}, warned |-> {}, err |-> NoErr, errAt |-> "", start |-> fs,
                plans |-> [k \in Range(DownloadKinds) |-> <<>>]]

SpecDownload == InitDownload /\ [][DownloadNext]_vars

-----------------------------------------------------------------------------
(* Properties of download_raw_session *)

\* the kind is asked for, its check on the server and its pre-flight check pass
\* on the filesystem f, and it has files
Downloadable(f, req, k) ==
    /\ k = "extra" \/ req[k]
    /\ PrepareDownloadOf(f, k).err = NoErr
    /\ Len(PrepareDownloadOf(f, k).plan) > 0

\* every pair of the plan is here with the content it has on the server
CopiedInFull(f, plan) ==
    \A i \in 1 .. Len(plan) :
        /\ plan[i][2] \in DOMAIN f.files
        /\ f.files[plan[i][2]] = f.files[plan[i][1]]

\* C19: download_raw_session never raises from its prepare phase; a kind asked
\* for whose check fails or that has no files is given up with a warning and
\* nothing of it is copied; once the copies are over without an error of the
\* copy itself, every kind asked for that passed its checks and has files is
\* here in full.
C19_DownloadsWhatIsValid ==
    (call.op = "download" /\ call.pc # "prepare") =>
        /\ call.errAt # "prepare"
        /\ \A k \in Range(DownloadKinds) :
            /\ (k = "extra" \/ call.req[k]) =>
                (k \in call.warned <=> ~Downloadable(call.start, call.req, k))
            /\ k \notin call.inc => call.plans[k] = <<>>
            /\ (Downloadable(call.start, call.req, k)
                    /\ (call.pc \in {"validate", "done"} \/ call.errAt = "validate")) =>
                CopiedInFull(fs, PrepareDownloadOf(call.start, k).plan)
        /\ \A q \in DOMAIN fs.files \ DOMAIN call.start.files :
            \E k \in call.inc : \E i \in 1 .. Len(call.plans[k]) : call.plans[k][i][2] = q

\* C19, its case: a kind asked for was given up because its check failed and
\* another kind asked for was copied in full
C19_Witness ==
    /\ call.op = "download"
    /\ call.pc = "done"
    /\ call.req["behavior"] /\ call.req["videos"]
    /\ "behavior" \in call.warned
    /\ PrepareDownloadOf(call.start, "behavior").err # NoErr
    /\ "videos" \in call.inc
    /\ LocalSession \o Cam0Rel \in DOMAIN fs.files
    /\ LocalSession \o Cam0Rel \notin DOMAIN call.start.files

-----------------------------------------------------------------------------
(* sync_subject_dir (data_transfer.py 640-688) *)

ProcessingLevels == {"raw", "processed"}

SubjectDirOf(root, level) == root \o <<level, "M">>

\* the decorated function: validate_argument checks the level, then the body
SyncSubjectDirOf(f, level, mkdirOk) ==
    LET localDir == SubjectDirOf(LocalRoot, level)
        remoteDir == SubjectDirOf(RemoteRoot, level)
    IN  IF level \notin ProcessingLevels
        THEN [fs |-> f, err |-> Raise("ValueError", "Invalid value for processing_level",
                                      <<>>)]
        ELSE IF ~Exists(f, Parent(localDir))
        THEN [fs |-> f, err |-> Raise("FileNotFoundError",
                                      "Local level directory does not exist", localDir)]
        ELSE IF ~Exists(f, localDir)
        THEN [fs |-> f, err |-> Raise("FileNotFoundError",
                                      "Local subject directory does not exist", localDir)]
        ELSE IF localDir \notin f.dirs
        THEN [fs |-> f, err |-> Raise("NotADirectoryError",
                                      "Local subject directory is not a directory",
                                      localDir)]
        ELSE IF ~Exists(f, Parent(remoteDir))
        THEN [fs |-> f, err |-> Raise("FileNotFoundError",
                                      "Remote level directory does not exist", remoteDir)]
        ELSE IF Exists(f, remoteDir) THEN [fs |-> f, err |-> NoErr]
        ELSE IF ~mkdirOk \/ Parent(remoteDir) \notin f.dirs
        THEN [fs |-> f, err |-> Raise("OSError", "mkdir", remoteDir)]
        ELSE [fs |-> [f EXCEPT !.dirs = @ \cup {remoteDir}], err |-> NoErr]

SyncSubjectDir ==
    /\ call.op = "sync"
    /\ call.pc = "start"
    /\ \E mkdirOk \in BOOLEAN :
        LET r == SyncSubjectDirOf(fs, call.level, mkdirOk) IN
        /\ fs' = r.fs
        /\ call' = [call EXCEPT !.pc = IF r.err = NoErr THEN "done" ELSE "raised",
                                !.err = r.err]
    /\ UNCHANGED <<hvars, up>>

SyncNext == SyncSubjectDir

\* under a root, for each level: no level folder, a level folder without the
\* subject, with the subject's folder, or with a file of the subject's name
LevelStates == {"none", "empty", "dir", "file"}

MkSync(l, r) ==
    LET st(x) == IF x[1] = LocalRoot THEN l[x[2]] ELSE r[x[2]]
        slots == {LocalRoot, RemoteRoot} \X ProcessingLevels
    IN  [dirs |-> {LocalRoot, RemoteRoot}
                  \cup {x[1] \o <<x[2]>> : x \in {y \in slots : st(y) # "none"}}
                  \cup {SubjectDirOf(x[1], x[2]) : x \in {y \in slots : st(y) = "dir"}},
         files |-> [q \in {SubjectDirOf(x[1], x[2]) :
                              x \in {y \in slots : st(y) = "file"}} |-> SrcVal]]

SyncFilesystems ==
    { MkSync(l, r) : l \in [ProcessingLevels -> LevelStates],
                     r \in [ProcessingLevels -> LevelStates] }

InitSync ==
    /\ fs \in SyncFilesystems
    /\ OthersIdle
    /\ \E level \in ProcessingLevels \cup {"sorted"} :
        call = [op |-> "sync", pc |-> "start", level |-> level, err |-> NoErr,
                start |-> fs]

SpecSync == InitSync /\ [][SyncNext]_vars

-----------------------------------------------------------------------------
(* Properties of sync_subject_dir *)

\* C20 (as claimed): when sync_subject_dir returns, the remote subject
\* directory exists and nothing else changed but its creation; when it raises,
\* nothing changed, and the error is the ValueError for the level, or the
\* FileNotFoundError of the first of the local level directory, the local
\* subject directory and the remote level directory that is missing.
C20_SyncChangesAtMostOneThing ==
    (call.op = "sync" /\ call.pc # "start") =>
        LET localDir == SubjectDirOf(LocalRoot, call.level)
            remoteDir == SubjectDirOf(RemoteRoot, call.level)
            f0 == call.start
        IN  /\ call.pc = "done" =>
                /\ remoteDir \in fs.dirs
                /\ fs = [f0 EXCEPT !.dirs = @ \cup {remoteDir}]
            /\ call.pc = "raised" => fs = f0
            /\ call.level \notin ProcessingLevels =>
                call.pc = "raised" /\ call.err.type = "ValueError"
            /\ (call.level \in ProcessingLevels
                    /\ \/ ~Exists(f0, Parent(localDir))
                       \/ ~Exists(f0, localDir)
                       \/ localDir \in f0.dirs /\ ~Exists(f0, Parent(remoteDir))) =>
                /\ call.pc = "raised"
                /\ call.err.type = "FileNotFoundError"
                /\ call.err.msg =
                       IF ~Exists(f0, Parent(localDir))
                       THEN "Local level directory does not exist"
                       ELSE IF ~Exists(f0, localDir)
                       THEN "Local subject directory does not exist"
                       ELSE "Remote level directory does not exist"

-----------------------------------------------------------------------------
(* The validators of the classes of data_validation.py: RawSession.from_disk *)
(* loads the recordings (RawEphysRecording) and the behavioural data        *)
(* (RawBehavioralData) of a session folder.  Names are matched as the       *)
(* regular expressions of the code match them, on their characters.         *)

\* the characters of the canonical session name the model writes "S"
SessionChars == SubjectName \o <<"_">> \o Strftime(<<2023, 4, 4, 16, 0>>)

\* the characters of the names of the model
Chars(n) ==
    CASE n = "S" -> SessionChars
      [] n = "Sx" -> SubjectName \o <<"_", "2", "0", "2", "3", "_", "4", "_", "4", "_", "1", "6", "_", "0">>
      [] n = "S_g0" -> SessionChars \o <<"_", "g", "0">>
      [] n = "S_g1" -> SessionChars \o <<"_", "g", "1">>
      [] n = "X_g0" -> <<"X", "_", "g", "0">>
      [] n = "S_cameras" -> SessionChars \o <<"_", "c", "a", "m", "e", "r", "a", "s">>
      [] n = "run_task-task_files" ->
            <<"r", "u", "n", "_", "t", "a", "s", "k", "-", "t", "a", "s", "k", "_",
              "f", "i", "l", "e", "s">>
      [] n = "S_g0_imec0" -> SessionChars \o <<"_", "g", "0", "_", "i", "m", "e", "c", "0">>
      [] n = "S_g0_imec0_old" ->
            SessionChars \o <<"_", "g", "0", "_", "i", "m", "e", "c", "0", "_", "o", "l", "d">>
      [] n = "probe0" -> <<"p", "r", "o", "b", "e", "0">>
      [] n = ".DS_Store" -> <<".", "D", "S", "_", "S", "t", "o", "r", "e">>
      [] n = "notes.txt" -> <<"n", "o", "t", "e", "s", ".", "t", "x", "t">>
      [] n = "S.txt" -> SessionChars \o <<".", "t", "x", "t">>
      [] n = "S_MotSen1-X.pca" ->
            SessionChars \o <<"_", "M", "o", "t", "S", "e", "n", "1", "-", "X", ".", "p", "c", "a">>
      [] n = "S_MotSen1-Y.pca" ->
            SessionChars \o <<"_", "M", "o", "t", "S", "e", "n", "1", "-", "Y", ".", "p", "c", "a">>
      [] n = "S_MotSen2-X.pca" ->
            SessionChars \o <<"_", "M", "o", "t", "S", "e", "n", "2", "-", "X", ".", "p", "c", "a">>
      [] n = "MotSen1-X.pca" -> <<"M", "o", "t", "S", "e", "n", "1", "-", "X", ".", "p", "c", "a">>
      [] n = "comment.txt" -> <<"c", "o", "m", "m", "e", "n", "t", ".", "t", "x", "t">>
      [] n = "S_comment.txt" ->
            SessionChars \o <<"_", "c", "o", "m", "m", "e", "n", "t", ".", "t", "x", "t">>
      [] n = "S.json" -> SessionChars \o <<".", "j", "s", "o", "n">>
      [] n = "task.py" -> <<"t", "a", "s", "k", ".", "p", "y">>
      [] n = "task2.py" -> <<"t", "a", "s", "k", "2", ".", "p", "y">>

\* os.listdir: the names of the entries of a folder, files and folders alike,
\* in the order the listings of the model return them
EntryOrder ==
    <<".DS_Store", "notes.txt", "probe0", "S_g0_imec0", "S_g0_imec0_old",
      "S_g0", "S_g1", "X_g0", "S_cameras", "run_task-task_files",
      "S.txt", "S_MotSen1-X.pca", "S_MotSen1-Y.pca", "S_MotSen2-X.pca", "MotSen1-X.pca",
      "comment.txt", "S_comment.txt", "S.json", "task.py", "task2.py">>

ListDir(f, dir) ==
    LET In(n) == dir \o <<n>> \in f.dirs \cup DOMAIN f.files
    IN  SelectSeq(EntryOrder, In)

\* os.path.splitext(filename)[1]: from the last dot on, leading dots apart
SplitExt(s) ==
    LET dots == {i \in 1 .. Len(s) : s[i] = "." /\ \E j \in 1 .. i - 1 : s[j] # "."}
    IN  IF dots = {} THEN <<>>
        ELSE SubSeq(s, CHOOSE i \in dots : \A j \in dots : j <= i, Len(s))

PcaExt == <<".", "p", "c", "a">>
TxtExt == <<".", "t", "x", "t">>
PyExt == <<".", "p", "y">>

\* list_files_with_extension
ListFilesWithExtension(f, dir, ext) ==
    LET Has(n) == SplitExt(Chars(n)) = ext
    IN  SelectSeq(ListDir(f, dir), Has)

\* re.match(HIDDEN_FILE_PATTERN, filename)
IsHidden(s) == Len(s) > 0 /\ s[1] = "."

\* SPIKEGLX_RECORDING_PATTERN.search(folder_name).group(0)[1:], <<>> for no match
ExtractGid(s) ==
    LET ks == {k \in 1 .. Len(s) - 2 :
                  /\ AllDigits(SubSeq(s, Len(s) - k + 1, Len(s)))
                  /\ s[Len(s) - k] = "g"
                  /\ s[Len(s) - k - 1] = "_"}
    IN  IF ks = {} THEN <<>>
        ELSE SubSeq(s, Len(s) - (CHOOSE k \in ks : TRUE), Len(s))

\* Session.list_ephys_recording_folders
ListEphysRecordingFolders(f, sess) ==
    LET Crit(n) == sess \o <<n>> \in f.dirs /\ ExtractGid(Chars(n)) # <<>>
    IN  IF ~Exists(f, sess) THEN <<>> ELSE SelectSeq(ListDir(f, sess), Crit)

\* re.match(get_expected_probe_folder_pattern(), filename): the expected
\* recording name, "_imec" and one digit, at the start of the name
MatchesProbeFolderPattern(expected, s) ==
    /\ Len(s) >= Len(expected) + 6
    /\ StartsWith(s, expected \o <<"_", "i", "m", "e", "c">>)
    /\ IsDigit(s[Len(expected) + 6])

\* RawEphysRecording.validate_probe_folder_names, from the i-th entry on
RECURSIVE ValidateProbeFolderNamesFrom(_, _, _, _, _)
ValidateProbeFolderNamesFrom(f, rec, expected, entries, i) ==
    IF i > Len(entries) THEN NoErr
    ELSE IF IsHidden(Chars(entries[i]))
    THEN ValidateProbeFolderNamesFrom(f, rec, expected, entries, i + 1)
    ELSE IF rec \o <<entries[i]>> \notin f.dirs
    THEN Raise("ValueError", "Only folders are allowed in the ephys recordings folder",
               rec \o <<entries[i]>>)
    ELSE IF ~MatchesProbeFolderPattern(expected, Chars(entries[i]))
    THEN Raise("ValueError", "doesn't match the expected format for probes",
               rec \o <<entries[i]>>)
    ELSE ValidateProbeFolderNamesFrom(f, rec, expected, entries, i + 1)

\* RawEphysRecording.__init__: the gid, validate_folder_name, then
\* validate_probe_folder_names
RawEphysRecording(f, sess, folderName) ==
    LET expected == Chars(Name(sess)) \o <<"_">> \o ExtractGid(Chars(folderName))
        rec == sess \o <<folderName>>
    IN  IF Chars(folderName) # expected
        THEN Raise("ValueError", "does not match expected format", rec)
        ELSE ValidateProbeFolderNamesFrom(f, rec, expected, ListDir(f, rec), 1)

\* RawSession.load_ephys_recordings: one RawEphysRecording per folder found
RECURSIVE LoadEphysRecordingsFrom(_, _, _, _)
LoadEphysRecordingsFrom(f, sess, folders, i) ==
    IF i > Len(folders) THEN NoErr
    ELSE LET e == RawEphysRecording(f, sess, folders[i])
         IN  IF e # NoErr THEN e ELSE LoadEphysRecordingsFrom(f, sess, folders, i + 1)

LoadEphysRecordings(f, sess) ==
    LoadEphysRecordingsFrom(f, sess, ListEphysRecordingFolders(f, sess), 1)

\* RawBehavioralData.pycontrol_filename_pattern, matched with re.match: the
\* subject, an underscore and the date string at the start, anything, and the
\* ending of the extension
MatchesPyControlPattern(sessName, ext, s) ==
    /\ StartsWith(s, sessName)
    /\ IF ext = PcaExt
       THEN \E i \in Len(sessName) + 1 .. Len(s) - 13 :
                /\ SubSeq(s, i, i + 6) = <<"_", "M", "o", "t", "S", "e", "n">>
                /\ IsDigit(s[i + 7])
                /\ s[i + 8] = "-"
                /\ s[i + 9] \in {"X", "Y"}
                /\ SubSeq(s, i + 10, i + 13) = PcaExt
       ELSE \E i \in Len(sessName) + 1 .. Len(s) - 3 : SubSeq(s, i, i + 3) = TxtExt

\* RawBehavioralData._validate_pycontrol_filenames for one extension
RECURSIVE ValidatePyControlFilenamesFrom(_, _, _, _)
ValidatePyControlFilenamesFrom(sess, ext, names, i) ==
    IF i > Len(names) THEN NoErr
    ELSE IF ~MatchesPyControlPattern(Chars(Name(sess)), ext, Chars(names[i]))
    THEN Raise("ValueError", "does not match expected pattern for PyControl",
               sess \o <<names[i]>>)
    ELSE ValidatePyControlFilenamesFrom(sess, ext, names, i + 1)

\* RawBehavioralData._validate_number_of_pycontrol_files_with_extension
ValidateNumberOfPyControlFiles(f, sess, ext, expectedNumber) ==
    IF Len(ListFilesWithExtension(f, sess, ext)) # expectedNumber
    THEN Raise("ValueError", "Expected n files with extension", sess)
    ELSE NoErr

PyControlPyFolder == <<"run_task-task_files">>

\* RawBehavioralData._validate_only_one_py_file
ValidateOnlyOnePyFile(f, sess) ==
    LET n == Len(ListFilesWithExtension(f, sess \o PyControlPyFolder, PyExt))
    IN  IF n = 0
        THEN Raise("FileNotFoundError", "Could not find any .py files",
                   sess \o PyControlPyFolder)
        ELSE IF n > 1
        THEN Raise("ValueError", "Found more than one .py files", sess \o PyControlPyFolder)
        ELSE NoErr

\* RawBehavioralData.validate: the names, the numbers, then the task folder
RawBehavioralDataValidate(f, sess) ==
    LET namesPca == ValidatePyControlFilenamesFrom(
                        sess, PcaExt, ListFilesWithExtension(f, sess, PcaExt), 1)
        namesTxt == ValidatePyControlFilenamesFrom(
                        sess, TxtExt, ListFilesWithExtension(f, sess, TxtExt), 1)
        numPca == ValidateNumberOfPyControlFiles(f, sess, PcaExt, ExpectedPca)
        numTxt == ValidateNumberOfPyControlFiles(f, sess, TxtExt, ExpectedTxt)
    IN  IF namesPca # NoErr THEN namesPca
        ELSE IF namesTxt # NoErr THEN namesTxt
        ELSE IF numPca # NoErr THEN numPca
        ELSE IF numTxt # NoErr THEN numTxt
        ELSE IF Exists(f, sess \o PyControlPyFolder) THEN ValidateOnlyOnePyFile(f, sess)
        ELSE NoErr

\* RawSession.load_behavioral_data: the constructor of RawBehavioralData
\* validates before has_pycontrol_files is asked
LoadBehavioralData(f, sess) == RawBehavioralDataValidate(f, sess)

\* Session.from_disk: the folder name
LoadPrescreen ==
    /\ call.op = "load"
    /\ call.pc = "start"
    /\ LET e == PrescreenFolderName(Chars(Name(call.sess)), SubjectName) IN
        call' = IF e # NoErr THEN [call EXCEPT !.pc = "raised", !.err = e, !.at = "name"]
                ELSE [call EXCEPT !.pc = "ephys"]
    /\ UNCHANGED <<fs, hvars, up>>

\* Session.from_disk: session.load_ephys_recordings()
LoadEphys ==
    /\ call.op = "load"
    /\ call.pc = "ephys"
    /\ LET e == LoadEphysRecordings(fs, call.sess) IN
        call' = IF e # NoErr THEN [call EXCEPT !.pc = "raised", !.err = e, !.at = "ephys"]
                ELSE [call EXCEPT !.pc = "behavior"]
    /\ UNCHANGED <<fs, hvars, up>>

\* Session.from_disk: session.load_behavioral_data(), and the return
LoadBehavior ==
    /\ call.op = "load"
    /\ call.pc = "behavior"
    /\ LET e == LoadBehavioralData(fs, call.sess) IN
        call' = IF e # NoErr THEN [call EXCEPT !.pc = "raised", !.err = e, !.at = "behavior"]
                ELSE [call EXCEPT !.pc = "done"]
    /\ UNCHANGED <<fs, hvars, up>>

LoadNext == LoadPrescreen \/ LoadEphys \/ LoadBehavior

\* a session folder whose name is not canonical
OtherSession == LocalRoot \o <<"raw", "M", "Sx">>

BadPcaRel == <<"MotSen1-X.pca">>

\* the root files of the session: any of the behavioural files, a third
\* sensor file, a sensor file without the session name, the whitelisted file
BehaviorVariants ==
    SUBSET {TxtRel, PcaXRel, PcaYRel, Pca2Rel, BadPcaRel, CommentRel, SCommentRel}

GoodBehavior == {TxtRel, PcaXRel, PcaYRel}

\* the task folder: none, empty, with one script, with two
TaskVariants ==
    { [dirs |-> {}, files |-> {}],
      [dirs |-> {PyControlPyFolder}, files |-> {}],
      [dirs |-> {PyControlPyFolder}, files |-> {PyControlPyFolder \o <<"task.py">>}],
      [dirs |-> {PyControlPyFolder},
       files |-> {PyControlPyFolder \o <<"task.py">>, PyControlPyFolder \o <<"task2.py">>}] }

\* the content of the probe folder: its four files, one missing, one more, none
ProbeContents ==
    { {LfMetaRel, LfBinRel, ApMetaRel, ApBinRel},
      {LfMetaRel, LfBinRel, ApMetaRel},
      {LfMetaRel, LfBinRel, ApMetaRel, ApBinRel, ProbeRel \o <<"notes.txt">>},
      {} }

\* the folders of the session root that may hold recordings
RecordingSets ==
    { {}, {RecordingRel}, {RecordingRel, <<"S_g1">>}, {<<"X_g0">>},
      {RecordingRel, CamerasRel} }

\* what lies directly in the recording folder, the probe folder apart
RecordingEntries ==
    { [dirs |-> D, files |-> F] :
        D \in SUBSET {RecordingRel \o <<"probe0">>, RecordingRel \o <<"S_g0_imec0_old">>},
        F \in SUBSET {RecordingRel \o <<".DS_Store">>, NotesRel} }

GoodEphys == [dirs |-> {RecordingRel, ProbeRel},
              files |-> {LfMetaRel, LfBinRel, ApMetaRel, ApBinRel}]

EphysVariants ==
    { [dirs |-> R, files |-> {}] : R \in RecordingSets }
    \cup { [dirs |-> R \cup e.dirs \cup (IF p THEN {ProbeRel} ELSE {}),
            files |-> e.files \cup (IF p THEN c ELSE {})] :
              R \in {X \in RecordingSets : RecordingRel \in X},
              e \in RecordingEntries, p \in BOOLEAN, c \in ProbeContents }

MkLoad(files, dirs) ==
    LET base == MkFs([q \in {LocalSession \o r : r \in files} |-> SrcVal])
    IN  [base EXCEPT !.dirs = @ \cup {LocalSession, Parent(LocalSession), OtherSession}
                                \cup {LocalSession \o d : d \in dirs}]

LoadFilesystems ==
    { MkLoad(b \cup t.files \cup GoodEphys.files, t.dirs \cup GoodEphys.dirs) :
        b \in BehaviorVariants, t \in TaskVariants }
    \cup { MkLoad(GoodBehavior \cup e.files, e.dirs) : e \in EphysVariants }

InitLoad ==
    /\ fs \in LoadFilesystems
    /\ OthersIdle
    /\ \E sess \in {LocalSession, OtherSession} :
        /\ sess = OtherSession => fs = MkLoad(GoodBehavior \cup GoodEphys.files, GoodEphys.dirs)
        /\ call = [op |-> "load", pc |-> "start", sess |-> sess, err |-> NoErr,
                   at |-> "none"]

SpecLoad == InitLoad /\ [][LoadNext]_vars

-----------------------------------------------------------------------------
(* Properties of the class validators *)

\* the names of the grammar: the recording name, "_imec" and one digit
IsProbeFolderName(recName, s) ==
    /\ Len(s) = Len(recName) + 6
    /\ SubSeq(s, 1, Len(recName) + 5) = recName \o <<"_", "i", "m", "e", "c">>
    /\ IsDigit(s[Len(s)])

RecordingFoldersOf(f, sess) ==
    {d \in DirsIn(f, sess) : ExtractGid(Chars(Name(d))) # <<>>}

EphysAccepted == call.op = "load" /\ call.pc \in {"behavior", "done"}

\* C21 (as claimed): when the ephys validation of a session succeeds, every
\* probe folder of every recording folder holds exactly the four files
\* {recording}_t0.imec{d}.lf.meta, .lf.bin, .ap.meta and .ap.bin, no file
\* missing and no file more.
C21_ProbeFoldersComplete ==
    EphysAccepted =>
        \A rec \in RecordingFoldersOf(fs, call.sess) :
            \A d \in DirsIn(fs, rec) :
                IsProbeFolderName(Chars(Name(rec)), Chars(Name(d))) =>
                    /\ {Name(q) : q \in FilesIn(fs, d)} = ProbeFileNames
                    /\ DirsIn(fs, d) = {}

\* C22 (as claimed): when the ephys validation succeeds, every entry directly
\* in a recording folder whose name does not begin with a dot is a folder
\* named exactly {recording}_imec{d}.
C22_OnlyProbeFolders ==
    EphysAccepted =>
        \A rec \in RecordingFoldersOf(fs, call.sess) :
            \A q \in FilesIn(fs, rec) \cup DirsIn(fs, rec) :
                ~IsHidden(Chars(Name(q))) =>
                    /\ q \in fs.dirs
                    /\ IsProbeFolderName(Chars(Name(rec)), Chars(Name(q)))

\* the root files the behavioural check counts: not whitelisted, of extension ext
CountedFiles(f, sess, ext) ==
    {q \in FilesIn(f, sess) : SplitExt(Chars(Name(q))) = ext /\ ~IsWhitelisted(Name(q))}

BehaviorWellFormed(f, sess) ==
    /\ Cardinality(CountedFiles(f, sess, TxtExt)) = ExpectedTxt
    /\ Cardinality(CountedFiles(f, sess, PcaExt)) = ExpectedPca
    /\ \A q \in CountedFiles(f, sess, TxtExt) :
           MatchesPyControlPattern(Chars(Name(sess)), TxtExt, Chars(Name(q)))
    /\ \A q \in CountedFiles(f, sess, PcaExt) :
           MatchesPyControlPattern(Chars(Name(sess)), PcaExt, Chars(Name(q)))

\* C23 (as claimed): the behavioural validation of a session succeeds exactly
\* when the root files that are not whitelisted hold one .txt file and two
\* .pca files, each matching the pattern anchored on the session name, and a
\* wrong number for either extension raises the wrong-file-count error.
C23_BehaviorIffCounts ==
    (call.op = "load" /\ (call.pc = "done" \/ (call.pc = "raised" /\ call.at = "behavior"))) =>
        /\ call.pc = "done" <=> BehaviorWellFormed(fs, call.sess)
        /\ (/\ \A ext \in {TxtExt, PcaExt} : \A q \in CountedFiles(fs, call.sess, ext) :
                   MatchesPyControlPattern(Chars(Name(call.sess)), ext, Chars(Name(q)))
            /\ \/ Cardinality(CountedFiles(fs, call.sess, TxtExt)) # ExpectedTxt
               \/ Cardinality(CountedFiles(fs, call.sess, PcaExt)) # ExpectedPca) =>
                call.err.type = "WrongNumberOfFilesError"

-----------------------------------------------------------------------------
(* get_last_session_path and list_subject_sessions (query_sessions.py 8-67). *)
(* The folders of the subject are the slots of BatchSessions; names gives   *)
(* the characters of each folder's name.                                    *)

\* validate_session_path: the name is the subject, an underscore and a
\* canonical date; anything else is the ValueError of a malformed name
ValidateSessionPath(folderName, subjectName) ==
    IF ~StartsWith(folderName, subjectName \o <<"_">>)
    THEN Raise("ValueError", "Folder name has to start with subject name", <<>>)
    ELSE ValidateTimeFormat(ExtractDateStr(folderName, subjectName))

\* list_subject_sessions: the folders with a valid name, in listing order
ListSubjectSessions(f, names) ==
    LET Valid(s) == /\ SubjectDir \o <<s>> \in f.dirs
                    /\ ValidateSessionPath(names[s], SubjectName) = NoErr
    IN  SelectSeq(BatchSessions, Valid)

\* a < b for two datetimes
DateBefore(a, b) ==
    \E i \in 1 .. 5 : a[i] < b[i] /\ \A j \in 1 .. i - 1 : a[j] = b[j]

\* dates.index(max(dates)): the first position that holds the maximum
IndexOfMax(dates) ==
    CHOOSE i \in 1 .. Len(dates) :
        /\ \A j \in 1 .. Len(dates) : ~DateBefore(dates[i], dates[j])
        /\ \A j \in 1 .. i - 1 : DateBefore(dates[j], dates[i])

\* the mutation: the first valid session, whatever its date
GetFirstSessionPath(f, names) ==
    LET valid == ListSubjectSessions(f, names)
    IN  IF Len(valid) = 0
        THEN [err |-> Raise("ValueError", "No valid sessions found", SubjectDir),
              path |-> <<>>]
        ELSE [err |-> NoErr, path |-> SubjectDir \o <<valid[1]>>]

GetLastSessionPath(f, names) ==
    LET valid == ListSubjectSessions(f, names)
        dates == [i \in 1 .. Len(valid) |->
                     Strptime(ExtractDateStr(names[valid[i]], SubjectName))]
    IN  IF Len(valid) = 0
        THEN [err |-> Raise("ValueError", "No valid sessions found", SubjectDir),
              path |-> <<>>]
        ELSE [err |-> NoErr, path |-> SubjectDir \o <<valid[IndexOfMax(dates)]>>]

CallGetLastSessionPath ==
    /\ call.op = "last"
    /\ call.pc = "start"
    /\ LET r == GetLastSessionPath(fs, call.names) IN
        call' = [call EXCEPT !.pc = IF r.err = NoErr THEN "done" ELSE "raised",
                             !.err = r.err, !.path = r.path]
    /\ UNCHANGED <<fs, hvars, up>>

LastNext == CallGetLastSessionPath

\* the names a folder of the subject can have: four sessions, a later session
\* whose hour is not padded, a later session of another subject, the subject
\* and an underscore, the subject alone, and a name that is no session at all
LastNames ==
    { SubjectName \o <<"_">> \o Strftime(<<2023, 4, 4, 16, 59>>),
      SubjectName \o <<"_">> \o Strftime(<<2023, 12, 30, 7, 0>>),
      SubjectName \o <<"_">> \o Strftime(<<2024, 2, 4, 16, 0>>),
      SubjectName \o <<"_">> \o Strftime(<<2024, 2, 29, 7, 59>>),
      SubjectName \o <<"_", "2", "0", "2", "4", "_", "1", "2", "_", "3", "1", "_", "7", "_",
                       "0", "0">>,
      <<"M", "2", "_">> \o Strftime(<<2024, 12, 31, 16, 0>>),
      SubjectName \o <<"_">>,
      SubjectName,
      <<"n", "o", "t", "e", "s">> }

\* each slot: absent, a folder, a plain file
SlotKinds == {"none", "dir", "file"}

MkSubject(kinds) ==
    [dirs |-> BaseDirs \cup {LocalRoot \o <<"raw">>, SubjectDir}
              \cup {SubjectDir \o <<s>> : s \in {x \in Range(BatchSessions) : kinds[x] = "dir"}},
     files |-> [q \in {SubjectDir \o <<s>> :
                          s \in {x \in Range(BatchSessions) : kinds[x] = "file"}} |-> SrcVal]]

InitLast ==
    /\ OthersIdle
    /\ \E kinds \in [Range(BatchSessions) -> SlotKinds],
          names \in [Range(BatchSessions) -> LastNames] :
        /\ \A s, t \in Range(BatchSessions) : s # t => names[s] # names[t]
        /\ fs = MkSubject(kinds)
        /\ call = [op |-> "last", pc |-> "start", names |-> names, err |-> NoErr,
                   path |-> <<>>]

SpecLast == InitLast /\ [][LastNext]_vars

-----------------------------------------------------------------------------
(* Properties of get_last_session_path *)

\* the timestamp a canonical name spells, and its place in time as a number
TimestampOf(s) == CHOOSE t \in Timestamps : s = SubjectName \o <<"_">> \o Strftime(t)

MinuteOf(t) == (((t[1] * 12 + t[2]) * 31 + t[3]) * 24 + t[4]) * 60 + t[5]

\* the folders of the subject that have a canonical name
ValidlyNamed(f, names) ==
    {s \in Range(BatchSessions) : SubjectDir \o <<s>> \in f.dirs /\ Canonical(names[s])}

\* C24: get_last_session_path returns a folder with a canonical name whose
\* timestamp is the latest of all folders of the subject with a canonical
\* name, whatever other folders and files the subject holds, and raises
\* ValueError exactly when no folder has a canonical name.
C24_LastIsLatestValid ==
    (call.op = "last" /\ call.pc # "start") =>
        LET V == ValidlyNamed(fs, call.names) IN
        /\ V = {} => call.pc = "raised" /\ call.err.type = "ValueError"
        /\ V # {} =>
            /\ call.pc = "done"
            /\ \E s \in V :
                /\ call.path = SubjectDir \o <<s>>
                /\ \A t \in V : MinuteOf(TimestampOf(call.names[t]))
                                    <= MinuteOf(TimestampOf(call.names[s]))

\* C24 witness: the latest session is returned although it is not listed
\* first and a folder with a later, unpadded date lies next to it
C24_Witness ==
    /\ call.op = "last"
    /\ call.pc = "done"
    /\ Cardinality(ValidlyNamed(fs, call.names)) >= 2
    /\ call.path # SubjectDir \o <<ListSubjectSessions(fs, call.names)[1]>>
    /\ \E s \in Range(BatchSessions) :
        /\ SubjectDir \o <<s>> \in fs.dirs
        /\ ~Canonical(call.names[s])
        /\ Strptime(ExtractDateStr(call.names[s], SubjectName)) # NoTime

-----------------------------------------------------------------------------
(* Properties of upload_raw_session: renaming of the source *)

\* C25 (as claimed): when upload_raw_session is called with extra files
\* included and rename_extra_files_first false (and no renaming of videos
\* asked for), the source session holds files of the same names during and
\* after the call as before it.
C25_NoRenameUnlessAsked ==
    (up.pc # "idle" /\ up.flags.extra /\ ~up.flags.renExtra /\ ~up.flags.renVid) =>
        FilesUnder(fs, LocalSession) = FilesUnder(up.start, LocalSession)

-----------------------------------------------------------------------------
(* The copy loop after a pre-flight check that passed.  One caller alone    *)
(* (SpecAgree), and a caller with a second writer of the destination        *)
(* (SpecLate).                                                              *)

\* lists whose destinations are pairwise distinct
DistinctDestLists ==
    {l \in PairLists : \A i, j \in 1 .. Len(l) : i # j => l[i][2] # l[j][2]}

\* destinations where a plain file stands in the place of a folder: the
\* session folder, or the recording folder
BlockedFilesystems ==
    { MkFs([q \in HelperSrcFiles \cup {b} |->
                IF q \in HelperSrcFiles THEN SrcVal ELSE [data |-> "y", mtime |-> "t2"]]) :
        b \in {RemoteRoot \o SessionRel, RemoteRoot \o SessionRel \o <<"S_g0">>} }

InitAgree ==
    /\ fs \in HelperFilesystems \cup BlockedFilesystems
    /\ pc = [p \in Procs |-> IF p = "A" THEN "check" ELSE "idle"]
    /\ \E l \in DistinctDestLists : pairs = [p \in Procs |-> IF p = "A" THEN l ELSE <<>>]
    /\ \E pol \in Policies : policy = [p \in Procs |-> pol]
    /\ idx = [p \in Procs |-> 1]
    /\ err = [p \in Procs |-> NoErr]
    /\ fs0 = [p \in Procs |-> fs]
    /\ wrote = [p \in Procs |-> {}]
    /\ made = [p \in Procs |-> {}]
    /\ sawAbsent = [p \in Procs |-> {}]
    /\ call = NoCall
    /\ up = NoUpload

SpecAgree == InitAgree /\ [][HelperNext]_vars

\* what the destination may hold before: nothing, or files equal to or
\* different from their sources
LateFilesystems ==
    { MkFs([q \in HelperSrcFiles \cup D |->
                IF q \in HelperSrcFiles THEN SrcVal ELSE [data |-> dv[q], mtime |-> "t2"]]) :
        <<D, dv>> \in {<<D, dv>> \in (SUBSET HelperDstFiles) \X [HelperDstFiles -> {"x", "y"}] :
                          \A q \in HelperDstFiles \ D : dv[q] = "x"} }

\* A checks and copies its plan under any policy, while B copies one file
InitLate ==
    /\ fs \in LateFilesystems
    /\ pc = [p \in Procs |-> IF p = "A" THEN "check" ELSE "copy"]
    /\ \E l \in PlanLists, m \in {x \in PlanLists : Len(x) = 1} :
        pairs = [p \in Procs |-> IF p = "A" THEN l ELSE m]
    /\ \E pol \in Policies : policy = [p \in Procs |-> IF p = "A" THEN pol ELSE "overwrite"]
    /\ idx = [p \in Procs |-> 1]
    /\ err = [p \in Procs |-> NoErr]
    /\ fs0 = [p \in Procs |-> fs]
    /\ wrote = [p \in Procs |-> {}]
    /\ made = [p \in Procs |-> {}]
    /\ sawAbsent = [p \in Procs |-> {}]
    /\ call = NoCall
    /\ up = NoUpload

SpecLate == InitLate /\ [][HelperNext]_vars

-----------------------------------------------------------------------------
(* Properties of the copy loop *)

\* the destinations of the pairs whose handling has begun
BegunDests(p) ==
    LET last == IF pc[p] \in {"copy2", "copy_raised"} THEN idx[p] ELSE idx[p] - 1
    IN  {pairs[p][j][2] : j \in 1 .. last}

\* the file q is in f what it is in g, present or not
SameFile(f, g, q) ==
    /\ q \in DOMAIN f.files <=> q \in DOMAIN g.files
    /\ q \in DOMAIN f.files => f.files[q] = g.files[q]

\* C26: the copy loop handles the pairs one at a time in list order and stops
\* at the first pair that fails: only destinations of pairs up to the current
\* one were written, only their folders were created, every pair before the
\* current one has its destination in place, and every other file is what it
\* was when the loop was entered -- in particular when the loop has raised.
C26_InOrderStopAtFirstFailure ==
    pc["A"] \in {"copy", "copy2", "copy_raised", "copied"} =>
        /\ wrote["A"] \subseteq BegunDests("A")
        /\ fs.dirs \ fs0["A"].dirs \subseteq UNION {Ancestors(d) : d \in BegunDests("A")}
        /\ made["A"] = fs.dirs \ fs0["A"].dirs
        /\ \A j \in 1 .. idx["A"] - 1 : Exists(fs, pairs["A"][j][2])
        /\ \A q \in (DOMAIN fs.files \cup DOMAIN fs0["A"].files) \ BegunDests("A") :
               SameFile(fs, fs0["A"], q)

\* C26 witness: the first of two pairs raised, and the destination of the
\* second pair was neither copied nor given its folder
C26_Witness ==
    /\ pc["A"] = "copy_raised"
    /\ idx["A"] = 1
    /\ Len(pairs["A"]) = 2
    /\ pairs["A"][2][2] # pairs["A"][1][2]
    /\ ~Exists(fs, pairs["A"][2][2])
    /\ Parent(pairs["A"][2][2]) \notin fs.dirs

\* C27 (as claimed): after a pre-flight check that returned, for pairs with
\* pairwise distinct destinations and with nothing else touching the
\* filesystem, the copy loop over the same arguments raises no FileExistsError.
C27_CopyAgreesWithPreflight ==
    pc["A"] = "copy_raised" => err["A"].type # "FileExistsError"

\* C28: the copy loop applies the policy to what exists when it comes to a
\* pair: an existing destination is left untouched and the loop goes on under
\* skip and under error_if_different with equal content, and is left untouched
\* with FileExistsError raised under error and under error_if_different with
\* different content -- whenever the file came to exist.
C28_PolicyAtCopyTime ==
    [][\A p \in Procs :
          (/\ pc[p] = "copy"
           /\ idx[p] <= Len(pairs[p])
           /\ pc'[p] # pc[p] \/ idx'[p] # idx[p]
           /\ DstOf(p) \in DOMAIN fs.files
           /\ policy[p] # "overwrite") =>
              /\ DstOf(p) \in DOMAIN fs'.files
              /\ fs'.files[DstOf(p)] = fs.files[DstOf(p)]
              /\ IF policy[p] = "skip"
                    \/ (policy[p] = "error_if_different"
                            /\ DataOf(fs, SrcOf(p)) = DataOf(fs, DstOf(p)))
                 THEN pc'[p] = "copy" /\ idx'[p] = idx[p] + 1
                 ELSE pc'[p] = "copy_raised" /\ err'[p].type = "FileExistsError"]_vars

\* C28 witness: the copy loop raised FileExistsError for a destination that
\* its pre-flight check had found absent and that the other writer created
\* meanwhile, and the file is what the other writer left
C28_Witness ==
    /\ pc["A"] = "copy_raised"
    /\ err["A"].type = "FileExistsError"
    /\ DstOf("A") \in sawAbsent["A"]
    /\ DstOf("A") \in wrote["B"]
    /\ DstOf("A") \notin wrote["A"]
    /\ DstOf("A") \in DOMAIN fs.files

-----------------------------------------------------------------------------
(* download_raw_session statement by statement (data_transfer.py 406-505):  *)
(* the four prepare blocks, the four emptiness tests, the four copies and   *)
(* the validation, each a step of its own.                                  *)

\* the variant that copies each kind right after preparing it
DownloadStepsInterleaved ==
    << [op |-> "prepare", kind |-> "behavior"], [op |-> "drop_empty", kind |-> "none"],
       [op |-> "copy", kind |-> "behavior"],
       [op |-> "prepare", kind |-> "ephys"], [op |-> "drop_empty", kind |-> "none"],
       [op |-> "copy", kind |-> "ephys"],
       [op |-> "prepare", kind |-> "videos"], [op |-> "drop_empty", kind |-> "none"],
       [op |-> "copy", kind |-> "videos"],
       [op |-> "prepare", kind |-> "extra"], [op |-> "drop_empty", kind |-> "none"],
       [op |-> "copy", kind |-> "extra"],
       [op |-> "validate", kind |-> "none"] >>

\* the statements of the body in program order
DownloadSteps ==
    << [op |-> "prepare", kind |-> "behavior"],
       [op |-> "prepare", kind |-> "ephys"],
       [op |-> "prepare", kind |-> "videos"],
       [op |-> "prepare", kind |-> "extra"],
       [op |-> "drop_empty", kind |-> "none"],
       [op |-> "copy", kind |-> "behavior"],
       [op |-> "copy", kind |-> "ephys"],
       [op |-> "copy", kind |-> "videos"],
       [op |-> "copy", kind |-> "extra"],
       [op |-> "validate", kind |-> "none"] >>

\* the statement the call is at
DownloadStepAt(c) == DownloadSteps[c.step]

\* lines 408-466: one try block; the kind is prepared when it is asked for
\* (the extra files always), and given up with a warning when that raises
DsPrepare ==
    /\ call.op = "download_steps"
    /\ call.pc = "run"
    /\ DownloadStepAt(call).op = "prepare"
    /\ LET k == DownloadStepAt(call).kind
           r == PrepareDownloadOf(fs, k)
           c == [call EXCEPT !.step = @ + 1, !.prepared = @ \cup {k}]
       IN  call' = IF ~(k = "extra" \/ call.req[k]) THEN c
                   ELSE IF r.err # NoErr
                   THEN [c EXCEPT !.warned = @ \cup {k}, !.errs = @ \cup {r.err.type}]
                   ELSE [c EXCEPT !.inc = @ \cup {k}, !.plans[k] = r.plan]
    /\ UNCHANGED <<fs, hvars, up>>

\* lines 468-482: a kind still included that has no files is given up with a
\* warning
DsDropEmpty ==
    /\ call.op = "download_steps"
    /\ call.pc = "run"
    /\ DownloadStepAt(call).op = "drop_empty"
    /\ LET empty == {k \in call.inc : Len(call.plans[k]) = 0} IN
       call' = [call EXCEPT !.step = @ + 1, !.inc = @ \ empty, !.warned = @ \cup empty]
    /\ UNCHANGED <<fs, hvars, up>>

\* lines 484-491: _copy_list_of_files of the kind when it is still included
DsCopy ==
    /\ call.op = "download_steps"
    /\ call.pc = "run"
    /\ DownloadStepAt(call).op = "copy"
    /\ LET k == DownloadStepAt(call).kind IN
       IF k \notin call.inc
       THEN /\ call' = [call EXCEPT !.step = @ + 1]
            /\ fs' = fs
       ELSE \E failAt \in 0 .. Len(call.plans[k]) :
            \E io \in IF failAt = 0 THEN {"ok"} ELSE {"fail_clean", "fail_partial"} :
              LET r == CopyListOfFiles(fs, call.plans[k], DownloadPolicy, failAt, io)
                  c == [call EXCEPT !.copied = @ \cup {k}]
              IN  /\ fs' = r.fs
                  /\ call' = IF r.err # NoErr
                             THEN [c EXCEPT !.pc = "raised", !.err = r.err]
                             ELSE [c EXCEPT !.step = @ + 1]
    /\ UNCHANGED <<hvars, up>>

\* lines 493-505: validate_raw_session on what is here now, for the kinds kept
DsValidate ==
    /\ call.op = "download_steps"
    /\ call.pc = "run"
    /\ DownloadStepAt(call).op = "validate"
    /\ LET e == ValidateRawSession(fs, LocalSession, "behavior" \in call.inc,
                                   "ephys" \in call.inc, "videos" \in call.inc)
       IN  call' = IF e # NoErr
                   THEN [call EXCEPT !.pc = "raised", !.err = e]
                   ELSE IF call.step = Len(DownloadSteps)
                   THEN [call EXCEPT !.pc = "done"]
                   ELSE [call EXCEPT !.step = @ + 1]
    /\ UNCHANGED <<fs, hvars, up>>

DownloadStepsNext == DsPrepare \/ DsDropEmpty \/ DsCopy \/ DsValidate

InitDownloadSteps ==
    /\ fs \in DownloadFilesystems
    /\ OthersIdle
    /\ \E req \in [{"behavior", "ephys", "videos"} -> BOOLEAN] :
        call = [op |-> "download_steps", pc |-> "run", step |-> 1, req |-> req,
                inc |-> {}, warned |-> {}, errs |-> {}, prepared |-> {}, copied |-> {},
                err |-> NoErr, start |-> fs,
                plans |-> [k \in Range(DownloadKinds) |-> <<>>]]

SpecDownloadSteps == InitDownloadSteps /\ [][DownloadStepsNext]_vars

-----------------------------------------------------------------------------
(* Order of the statements of download_raw_session *)

\* C29: in download_raw_session every prepare block and every emptiness test
\* is over before the first _copy_list_of_files call: once a copy has been
\* made all four kinds have passed their prepare block, until then the
\* filesystem is what it was at the call, and every step that prepares a kind
\* or gives one up -- a collision found by a pre-flight check among them --
\* is taken with no copy made and the filesystem as it was at the call.
C29_PrepareBeforeAnyCopy ==
    /\ [](call.op = "download_steps" =>
            /\ call.copied # {} => call.prepared = Range(DownloadKinds)
            /\ call.copied = {} /\ call.pc = "run" => fs = call.start)
    /\ [][(call.op = "download_steps"
            /\ (call'.prepared # call.prepared \/ call'.warned # call.warned)) =>
                (call.copied = {} /\ fs = call.start /\ fs' = fs)]_vars

\* C29 witness: the behavioural data was given up for a collision found by its
\* pre-flight check, and videos and extra files were copied afterwards
C29_Witness ==
    /\ call.op = "download_steps"
    /\ call.pc = "done"
    /\ "behavior" \in call.warned
    /\ PrepareDownloadOf(call.start, "behavior").err.type = "FileExistsError"
    /\ {"videos", "extra"} \subseteq call.copied
    /\ fs # call.start

-----------------------------------------------------------------------------
(* rename_raw_videos_of_session with its call stack (video_renaming.py     *)
(* 46-121): the validator's verdict, the repair of the folder followed by   *)
(* the call of itself, the repair of the names, and the returns.            *)

\* the deepest call of itself the model lets the function make
MaxDepth == 3

\* lines 50-90: the videos found somewhere else are moved into the expected
\* folder, or their folder is renamed to it
PutVideoFolderInPlace(f, sess) ==
    LET folder == sess \o CamerasRel
        avis == {q \in FilesUnder(f, sess) : ExtOf(Name(q)) = ".avi"}
        found == {Parent(q) : q \in avis}
        meta == sess \o RootMetadataRel
    IN  IF Cardinality(found) # 1
        THEN [fs |-> f, err |-> Raise("AssertionError", "", sess)]
        ELSE IF Exists(f, folder)
        THEN [fs |-> f, err |-> Raise("FileExistsError", "Aborting renaming", folder)]
        ELSE IF found = {sess}
        THEN LET g == MoveFilesFrom([f EXCEPT !.dirs = @ \cup {folder}],
                                    ListOf(sess, avis), folder, 1)
             IN  IF ~Exists(g, meta)
                 THEN [fs |-> g, err |-> Raise("AssertionError", "", meta)]
                 ELSE [fs |-> Rename(g, meta, folder \o <<Name(meta)>>), err |-> NoErr]
        ELSE [fs |-> RenameFolder(f, CHOOSE d \in found : TRUE, folder), err |-> NoErr]

\* lines 46-49: validate_raw_videos_of_session inside the try; a ValueError is
\* caught and its message decides the branch, anything else is raised
RvValidate ==
    /\ call.op = "rename_rec"
    /\ call.pc = "validate"
    /\ LET v == ValidateVideos(fs, LocalSession) IN
       call' = IF v.err = NoErr THEN [call EXCEPT !.pc = "return"]
               ELSE IF v.err.type # "ValueError"
               THEN [call EXCEPT !.pc = "raised", !.err = v.err]
               ELSE IF v.err.msg = "file in unexpected location"
               THEN [call EXCEPT !.pc = "repair"]
               ELSE IF v.err.msg = "Video filename does not start with"
               THEN [call EXCEPT !.pc = "names"]
               ELSE [call EXCEPT !.pc = "return"]
    /\ UNCHANGED <<fs, hvars, up>>

\* lines 50-97: the 'unexpected location' branch, ending in the call of itself
RvRepair ==
    /\ call.op = "rename_rec"
    /\ call.pc = "repair"
    /\ call.depth < MaxDepth
    /\ LET r == PutVideoFolderInPlace(fs, LocalSession) IN
        /\ fs' = r.fs
        /\ call' = IF r.err # NoErr
                   THEN [call EXCEPT !.pc = "raised", !.err = r.err]
                   ELSE [call EXCEPT !.pc = "validate", !.depth = @ + 1,
                                     !.deepest = IF call.depth + 1 > @ THEN call.depth + 1
                                                 ELSE @]
    /\ UNCHANGED <<hvars, up>>

\* lines 99-116: the 'filename' branch
RvNames ==
    /\ call.op = "rename_rec"
    /\ call.pc = "names"
    /\ LET folder == LocalSession \o CamerasRel
           r == IF folder \notin fs.dirs
                THEN [fs |-> fs, err |-> Raise("AssertionError", "", folder)]
                ELSE RenameVideoFilesFrom(
                         fs, ListOf(LocalSession,
                                    {q \in FilesIn(fs, folder) : ExtOf(Name(q)) = ".avi"}), 1)
       IN  /\ fs' = r.fs
           /\ call' = IF r.err # NoErr
                      THEN [call EXCEPT !.pc = "raised", !.err = r.err]
                      ELSE [call EXCEPT !.pc = "return"]
    /\ UNCHANGED <<hvars, up>>

\* lines 118-134: the call returns; the caller, when it is the function itself,
\* extends its list, finds that its own error was not about filenames, and
\* returns in turn
RvReturn ==
    /\ call.op = "rename_rec"
    /\ call.pc = "return"
    /\ call' = IF call.depth = 0 THEN [call EXCEPT !.pc = "returned"]
               ELSE [call EXCEPT !.depth = @ - 1]
    /\ UNCHANGED <<fs, hvars, up>>

RecurseNext == RvValidate \/ RvRepair \/ RvNames \/ RvReturn

\* the sessions of the rename passes, and videos in a folder of another name
\* with a sidecar left in the session root
RecurseFilesystems ==
    RenameFilesystems
    \cup { MkFs([q \in {LocalSession \o r : r \in x \cup v} |-> SrcVal]) :
             x \in ExtraVariants,
             v \in {{OtherCamRawRel, OtherMetadataRel, RootMetadataRel},
                    {OtherCam0Rel, RootMetadataRel}} }

InitRecurse ==
    /\ fs \in RecurseFilesystems
    /\ OthersIdle
    /\ call = [op |-> "rename_rec", pc |-> "validate", depth |-> 0, deepest |-> 0,
               err |-> NoErr, start |-> fs]

\* the interpreter goes on running the call
SpecRecurse == InitRecurse /\ [][RecurseNext]_vars /\ WF_vars(RecurseNext)

-----------------------------------------------------------------------------
(* Termination of rename_raw_videos_of_session *)

\* C30: rename_raw_videos_of_session ends, by returning or by raising, for
\* every session tree, it calls itself at most one level deep, and the call of
\* itself never goes on from the 'unexpected location' branch to a further
\* call; what it leaves and raises is what the function computed as a whole
\* leaves and raises.
C30_TerminatesDepthOne ==
    /\ [](call.op = "rename_rec" =>
            /\ call.depth <= 1
            /\ call.deepest <= 1
            /\ call.pc \in {"returned", "raised"} =>
                LET r == RenameRawVideosOfSession(call.start, LocalSession) IN
                /\ fs = r.fs
                /\ call.err = r.err)
    /\ <>(call.op = "rename_rec" /\ call.pc \in {"returned", "raised"})

\* C30 witness: the call of itself found a file in an unexpected location
\* again, after the outer call had renamed the video folder, and raised
\* instead of calling itself
C30_Witness ==
    /\ call.op = "rename_rec"
    /\ call.pc = "raised"
    /\ call.depth = 1
    /\ call.err.type = "FileExistsError"
    /\ ValidateVideos(fs, LocalSession).err.msg = "file in unexpected location"
    /\ fs # call.start

====
